---------------------------- MODULE Spec2Model ----------------------------
(***************************************************************************)
(* A model of ChronoGraph's temporal analysis pipeline:                    *)
(*   - the result cache        (src-tauri/src/analysis_cache.rs)           *)
(*   - the repository navigator (src-tauri/src/git_navigator.rs)           *)
(*   - the analysis engine     (src-tauri/src/chronograph_engine.rs)       *)
(*   - the analyzer registry   (src-tauri/src/dependency_analyzer.rs)      *)
(*                                                                         *)
(* Specifications:                                                         *)
(*   SpecCache   one AnalysisCache instance driven by any sequence of its  *)
(*               operations, with the blob directory open to tampering.    *)
(*   SpecSample  sample_commits as a pure function of (sequence, stride,   *)
(*               maximum).                                                 *)
(*   Spec        analyze_repository from clone to the terminal event, the  *)
(*               commit sequence built by the navigator from the history.  *)
(*   SpecLoop    the commit loop of analyze_repository on any commit       *)
(*               sequence get_merge_sequence() hands it.                   *)
(*   SpecKey     cache keys derived from inputs that differ in one field.  *)
(*   SpecReuse   two runs of analyze_repository on one cache directory,    *)
(*               with the cache absent or failing.                         *)
(*   SpecNav     one navigator: sequence builds and checkouts in any order.*)
(*   SpecRegistry  one AnalyzerRegistry, its methods in any order.         *)
(*   SpecMirror  a mirror reopened after the remote branch advanced.       *)
(*   SpecWalk    the loop of build_merge_sequence_with_subfolder, a turn   *)
(*               at a time, on chains longer than its cap.                 *)
(*   SpecCommands  the Tauri commands on the shared engine slot, runs in   *)
(*               worker tasks.                                             *)
(*   SpecCacheOps  one AnalysisCache whose file operations succeed, with   *)
(*               a put stopped between its two steps.                      *)
(*   SpecShared  two AnalysisCache instances on one directory, a put and a *)
(*               removal interleaved step by step.                         *)
(***************************************************************************)
EXTENDS Integers, Sequences, FiniteSets, TLC

VARIABLES
    \* ---- AnalysisCache (analysis_cache.rs:91-95) ----
    index,          \* the analysis_cache table: cache_key -> Option<row>
    blobs,          \* the analysis/ directory: file path -> Option<bytes>
    clock,          \* SystemTime::now() in seconds
    ret,            \* what the last cache operation returned (and logged)
    stored,         \* per key tuple: the result of the last put not evicted since
    \* ---- sample_commits called on its own (chronograph_engine.rs:414) ----
    sample_in,      \* [merge_sequence, commit_sampling, max_commits]
    sample_out,     \* Option<what sample_commits returned>
    \* ---- AnalysisCacheKey derived on its own (analysis_cache.rs:21-63) ----
    key_in,         \* two key inputs: [repo_url, commit_hash, subfolder, analyzer_name, analysis_config]
    key_out,        \* Option<the two cache key strings derived from them>
    \* ---- the repository and GitTemporalNavigator (git_navigator.rs:26-31) ----
    history,        \* the default branch's first-parent chain, root first: trees
    merge_sequence, \* navigator.merge_sequence
    head,           \* position in history the working tree is checked out at
    current_commit, \* navigator.current_commit: Option<hash>
    detached_at,    \* Option<the hash the repository's HEAD is detached at>
    local_branch,   \* position the clone's local branch ref points at
    walk,           \* the locals of build_merge_sequence_with_subfolder's loop
    nav_ret,        \* the navigator call made last and what it returned
    \* ---- ChronoGraphEngine::analyze_repository (chronograph_engine.rs:121) ----
    config,         \* ChronoGraphConfig
    cache_opened,   \* engine.cache.is_some(): initialize_cache succeeded
    cached_before,  \* Option<the hashes the run before this one left cached>
    pc,             \* where the run is
    commits_to_analyze,
    loop_index,     \* index of the for loop over commits_to_analyze
    snapshots,      \* the local snapshots vector
    events,         \* every AnalysisProgress passed to progress_callback, in order
    run_result,     \* Option<"ok" | "err" | "panic">: what the run returned
    attempts,       \* per analyze_commit call: [hash, outcome]
    \* ---- AnalyzerRegistry (dependency_analyzer.rs:441) ----
    registry,       \* [analyzers, default_analyzer]
    reg_ret,        \* the registry call made last, what it returned, and
                    \* the names registered first and made default last
    \* ---- the command surface (chronograph_commands.rs) ----
    commands,       \* the ChronoGraphState slot, the engines made, the runs
                    \* in flight, and the command that returned last
    \* ---- two AnalysisCache instances on one directory (analysis_cache.rs:98) ----
    in_flight       \* the put of one instance and the removal of the other,
                    \* each with the step it has reached

cacheVars == <<index, blobs, clock, ret, stored>>

sampleVars == <<sample_in, sample_out>>

keyVars == <<key_in, key_out>>

navVars == <<history, merge_sequence, head, current_commit, detached_at,
            local_branch, walk, nav_ret>>

\* the engine as initialize_analysis stored it
engineVars == <<config, cache_opened, cached_before>>

runVars == <<engineVars, pc, commits_to_analyze, loop_index, snapshots, events,
             run_result, attempts>>

registryVars == <<registry, reg_ret>>

nonCacheVars == <<sampleVars, keyVars, registryVars, commands, in_flight, navVars, runVars>>

nonSampleVars == <<cacheVars, keyVars, registryVars, commands, in_flight, navVars, runVars>>

vars == <<index, blobs, clock, ret, stored, sample_in, sample_out,
          key_in, key_out,
          history, merge_sequence, head, current_commit, detached_at,
          local_branch, walk, nav_ret,
          config, cache_opened, cached_before, pc, commits_to_analyze,
          loop_index, snapshots, events, run_result, attempts,
          registry, reg_ret, commands, in_flight>>

-----------------------------------------------------------------------------
(* Bounds *)

MaxTime == 1        \* days the clock may advance
MaxAge == 1         \* cleanup_old_entries is called with 0..MaxAge days
MaxSeq == 8         \* longest commit sequence handed to sample_commits
MaxStride == 3      \* largest commit_sampling
MaxMax == 3         \* largest max_commits
MaxCommits == 3     \* longest first-parent chain of the repository
MaxReuse == 2       \* longest chain of a repository analysed twice
MaxNav == 2         \* longest chain of a repository the navigator is called on
MaxEngines == 2     \* engines initialize_analysis makes

-----------------------------------------------------------------------------
(* Values *)

\* Option<T>: None is the empty tuple, Some(x) the one-element tuple
None == <<>>

Some(x) == <<x>>

IsSome(o) == o # <<>>

Unwrap(o) == o[1]

Repos == {"repoA", "repoB"}

\* AnalysisResult, reduced to what the cache reads and the claims compare:
\* dependencies.len(), analyzed_files.len(), analyzer_name.
AnalysisResults ==
    { [dependencies |-> 1, analyzed_files |-> 1, analyzer_name |-> "test"],
      [dependencies |-> 3, analyzed_files |-> 0, analyzer_name |-> "lakos"] }

AnalyzerNames == <<"lakos", "test">>

NameCode(n) == CHOOSE i \in 1..Len(AnalyzerNames) : AnalyzerNames[i] = n

Repeat(x, n) == [i \in 1..n |-> x]

\* bincode::serialize: every Vec is written as its length followed by its
\* elements, the string as its code.  Dependencies are written as 7s and
\* files as 8s.
Serialize(result) ==
    <<result.dependencies>> \o Repeat(7, result.dependencies)
        \o <<NameCode(result.analyzer_name)>>
        \o <<result.analyzed_files>> \o Repeat(8, result.analyzed_files)

\* bincode::deserialize: reads the length prefix, then that many elements;
\* fails (None) on a short, long or ill-typed input.
Deserialize(data) ==
    IF Len(data) < 1 THEN None
    ELSE LET nd == data[1] IN
      IF Len(data) < nd + 3 THEN None
      ELSE IF \E i \in 2..(nd + 1) : data[i] # 7 THEN None
      ELSE LET code == data[nd + 2]
               nf   == data[nd + 3] IN
        IF code \notin 1..Len(AnalyzerNames) THEN None
        ELSE IF Len(data) # nd + 3 + nf THEN None
        ELSE IF \E i \in (nd + 4)..Len(data) : data[i] # 8 THEN None
        ELSE Some([dependencies |-> nd, analyzed_files |-> nf,
                   analyzer_name |-> AnalyzerNames[code]])

\* load_analysis_result: read the file, deserialize it
load_analysis_result(c, file_path) == Deserialize(Unwrap(c.blobs[file_path]))

\* fs::write(&file_path, b"corrupted data"): bytes that are no serialization
\* (a blob cut short)
CorruptedData == { <<1, 7, 1>> }

-----------------------------------------------------------------------------
(* Cache keys (analysis_cache.rs:11-63) *)

\* AnalysisCacheKey: the five identity fields
AnalysisCacheKey(repo_url, commit_hash, subfolder, analyzer_name, config_hash) ==
    [repo_url |-> repo_url, commit_hash |-> commit_hash, subfolder |-> subfolder,
     analyzer_name |-> analyzer_name, analysis_config_hash |-> config_hash]

\* The key tuples the cache specification works with: two of repoA, one of repoB.
CacheKeys ==
    { AnalysisCacheKey("repoA", 101, None, "lakos", "cfg0"),
      AnalysisCacheKey("repoA", 102, None, "lakos", "cfg0"),
      AnalysisCacheKey("repoB", 101, None, "lakos", "cfg0") }

\* to_cache_key: the five fields are fed to the hasher in this order and the
\* 64-bit digest is printed.  The digest is modelled by the stream it is
\* computed from (no SipHash collision among the keys of the model).
to_cache_key_drops_commit(key) ==
    <<key.repo_url, key.subfolder, key.analyzer_name, key.analysis_config_hash>>

to_cache_key(key) ==
    <<key.repo_url, key.commit_hash, key.subfolder, key.analyzer_name,
      key.analysis_config_hash>>

\* the keys an engine run on repoA computes
EngineKeys ==
    { AnalysisCacheKey("repoA", 100 + i, sf, "lakos", "cfg0") :
        i \in 1..MaxCommits, sf \in {None, Some(<<"a">>)} }

CacheKeyStrings == { to_cache_key(k) : k \in CacheKeys }

EngineKeyStrings == { to_cache_key(k) : k \in EngineKeys }

\* get_cache_file_path: cache_dir/analysis/<cache_key>.bincode
get_cache_file_path(cache_key) == <<"analysis", cache_key, "bincode">>

CacheFilePaths == { get_cache_file_path(ck) : ck \in CacheKeyStrings }

EngineFilePaths == { get_cache_file_path(ck) : ck \in EngineKeyStrings }

-----------------------------------------------------------------------------
(* Cache key derivation, byte by byte (analysis_cache.rs:21-63).           *)
(* Strings are sequences of bytes; what a Hash impl writes to the hasher    *)
(* is a sequence of bytes and numbers.  The 64-bit digest printed by        *)
(* format!("{:016x}", hasher.finish()) is modelled by the stream it is      *)
(* computed from: SipHash collisions are outside the model.                 *)

RECURSIVE Concat(_)
Concat(seqs) == IF seqs = <<>> THEN <<>> ELSE Head(seqs) \o Concat(Tail(seqs))

\* <str as Hash>::hash: the bytes, then 0xff
HashStr(s) == s \o <<255>>

\* <Option<String> as Hash>::hash: the discriminant, then the value
HashOptStr(o) == IF IsSome(o) THEN <<1>> \o HashStr(Unwrap(o)) ELSE <<0>>

\* <Option<usize> as Hash>::hash
HashOptUsize(o) == IF IsSome(o) THEN <<1, Unwrap(o)>> ELSE <<0>>

\* <bool as Hash>::hash
HashBool(b) == IF b THEN <<1>> ELSE <<0>>

\* <Vec<String> as Hash>::hash: the length, then every element
HashVecStr(v) == <<Len(v)>> \o Concat([i \in 1..Len(v) |-> HashStr(v[i])])

\* <Vec<(&String, &String)> as Hash>::hash
HashVecPairs(v) ==
    <<Len(v)>> \o Concat([i \in 1..Len(v) |-> HashStr(v[i][1]) \o HashStr(v[i][2])])

\* Ord for String: bytewise lexicographic
RECURSIVE StrLess(_, _)
StrLess(a, b) ==
    IF b = <<>> THEN FALSE
    ELSE IF a = <<>> THEN TRUE
    ELSE IF Head(a) # Head(b) THEN Head(a) < Head(b)
    ELSE StrLess(Tail(a), Tail(b))

sort_by_key_unsorted(pairs) == pairs

\* sorted_config.sort_by_key(|&(k, _)| k): a stable sort on the key
RECURSIVE sort_by_key(_)
sort_by_key(pairs) ==
    IF pairs = <<>> THEN <<>>
    ELSE LET rest == sort_by_key(Tail(pairs))
             p    == Head(pairs)
             n    == Cardinality({ i \in 1..Len(rest) : StrLess(rest[i][1], p[1]) }) IN
         SubSeq(rest, 1, n) \o <<p>> \o SubSeq(rest, n + 1, Len(rest))

\* AnalysisConfig; analyzer_config is the HashMap in the order iter() yields it
AnalysisConfig(ignore_patterns, file_extensions, max_depth, follow_symlinks, analyzer_config) ==
    [ignore_patterns |-> ignore_patterns, file_extensions |-> file_extensions,
     max_depth |-> max_depth, follow_symlinks |-> follow_symlinks,
     analyzer_config |-> analyzer_config]

hash_analysis_config_without_symlinks(cfg) ==
    HashVecStr(cfg.ignore_patterns)
        \o HashVecStr(cfg.file_extensions)
        \o HashOptUsize(cfg.max_depth)
        \o HashVecPairs(sort_by_key(cfg.analyzer_config))

\* hash_analysis_config
hash_analysis_config(cfg) ==
    HashVecStr(cfg.ignore_patterns)
        \o HashVecStr(cfg.file_extensions)
        \o HashOptUsize(cfg.max_depth)
        \o HashBool(cfg.follow_symlinks)
        \o HashVecPairs(sort_by_key(cfg.analyzer_config))

\* AnalysisCacheKey::new
AnalysisCacheKey_new(repo_url, commit_hash, subfolder, analyzer_name, analysis_config) ==
    AnalysisCacheKey(repo_url, commit_hash, subfolder, analyzer_name,
                     hash_analysis_config(analysis_config))

\* to_cache_key on a key of byte strings: everything written to the hasher
to_cache_key_bytes(key) ==
    HashStr(key.repo_url)
        \o HashStr(key.commit_hash)
        \o HashOptStr(key.subfolder)
        \o HashStr(key.analyzer_name)
        \o HashStr(key.analysis_config_hash)


-----------------------------------------------------------------------------
(* Cache operations, as functions of the cache state c = [index, blobs].   *)
(* File and database operations succeed.                                   *)

remove_entry_keeps_blob(c, cache_key) ==
    [index |-> [c.index EXCEPT ![cache_key] = None], blobs |-> c.blobs]

\* remove_entry: delete the blob if it exists, then the row
remove_entry(c, cache_key) ==
    LET file_path == get_cache_file_path(cache_key) IN
    [index |-> [c.index EXCEPT ![cache_key] = None],
     blobs |-> IF IsSome(c.blobs[file_path])
               THEN [c.blobs EXCEPT ![file_path] = None]
               ELSE c.blobs]

CacheGet_leaves_last_accessed(c, key, now) ==
    LET cache_key == to_cache_key(key)
        file_path == get_cache_file_path(cache_key)
        row == IsSome(c.index[cache_key])
        file == IsSome(c.blobs[file_path]) IN
    IF row /\ file /\ IsSome(load_analysis_result(c, file_path))
    THEN [index |-> c.index, blobs |-> c.blobs,
          res |-> load_analysis_result(c, file_path), outcome |-> "hit"]
    ELSE [index |-> [c.index EXCEPT ![cache_key] = None],
          blobs |-> IF row THEN [c.blobs EXCEPT ![file_path] = None] ELSE c.blobs,
          res |-> None,
          outcome |-> IF ~row THEN "miss" ELSE IF file THEN "corrupt" ELSE "missing"]

CacheGet_keeps_stale_row(c, key, now) ==
    LET cache_key == to_cache_key(key)
        file_path == get_cache_file_path(cache_key)
        row == IsSome(c.index[cache_key])
        file == IsSome(c.blobs[file_path]) IN
    IF row /\ file /\ IsSome(load_analysis_result(c, file_path))
    THEN [index |-> [c.index EXCEPT ![cache_key][1].last_accessed = now],
          blobs |-> c.blobs,
          res |-> load_analysis_result(c, file_path), outcome |-> "hit"]
    ELSE [index |-> IF file THEN [c.index EXCEPT ![cache_key] = None] ELSE c.index,
          blobs |-> IF row THEN [c.blobs EXCEPT ![file_path] = None] ELSE c.blobs,
          res |-> None,
          outcome |-> IF ~row THEN "miss" ELSE IF file THEN "corrupt" ELSE "missing"]

CacheGet_keeps_corrupt_entry(c, key, now) ==
    LET cache_key == to_cache_key(key)
        file_path == get_cache_file_path(cache_key)
        row == IsSome(c.index[cache_key])
        file == IsSome(c.blobs[file_path]) IN
    IF row /\ file /\ IsSome(load_analysis_result(c, file_path))
    THEN [index |-> [c.index EXCEPT ![cache_key][1].last_accessed = now],
          blobs |-> c.blobs,
          res |-> load_analysis_result(c, file_path), outcome |-> "hit"]
    ELSE [index |-> IF file THEN c.index ELSE [c.index EXCEPT ![cache_key] = None],
          blobs |-> c.blobs,
          res |-> None,
          outcome |-> IF ~row THEN "miss" ELSE IF file THEN "corrupt" ELSE "missing"]

\* AnalysisCache::get.  outcome names the branch taken: "miss" (no row),
\* "hit", "corrupt" (the warning of line 205) or "missing" (no blob file).
CacheGet(c, key, now) ==
    LET cache_key == to_cache_key(key)
        file_path == get_cache_file_path(cache_key) IN
    IF ~IsSome(c.index[cache_key])
    THEN [index |-> c.index, blobs |-> c.blobs, res |-> None, outcome |-> "miss"]
    ELSE IF IsSome(c.blobs[file_path])
    THEN LET result == load_analysis_result(c, file_path) IN
         IF IsSome(result)
         THEN [index |-> [c.index EXCEPT ![cache_key][1].last_accessed = now],
               blobs |-> c.blobs, res |-> result, outcome |-> "hit"]
         ELSE LET d == remove_entry(c, cache_key) IN
              [index |-> d.index, blobs |-> d.blobs, res |-> None,
               outcome |-> "corrupt"]
    ELSE [index |-> [c.index EXCEPT ![cache_key] = None], blobs |-> c.blobs,
          res |-> None, outcome |-> "missing"]

\* save_analysis_result that leaves a file that exists as it is
save_analysis_result_create_new(c, file_path, result) ==
    LET data == Serialize(result) IN
    [blobs |-> IF IsSome(c.blobs[file_path]) THEN c.blobs
               ELSE [c.blobs EXCEPT ![file_path] = Some(data)],
     file_size |-> Len(data)]

\* save_analysis_result: serialize, write the file, return the byte count
save_analysis_result(c, file_path, result) ==
    LET data == Serialize(result) IN
    [blobs |-> [c.blobs EXCEPT ![file_path] = Some(data)], file_size |-> Len(data)]

CachePut_appends(c, key, result, now) ==
    LET cache_key == to_cache_key(key)
        file_path == get_cache_file_path(cache_key)
        old       == IF IsSome(c.blobs[file_path]) THEN Unwrap(c.blobs[file_path])
                     ELSE <<>>
        data      == old \o Serialize(result) IN
    [index |-> [c.index EXCEPT ![cache_key] = Some(
                  [repo_url |-> key.repo_url,
                   commit_hash |-> key.commit_hash,
                   subfolder |-> key.subfolder,
                   analyzer_name |-> key.analyzer_name,
                   analysis_config_hash |-> key.analysis_config_hash,
                   created_at |-> now,
                   last_accessed |-> now,
                   file_count |-> result.analyzed_files,
                   dependency_count |-> result.dependencies,
                   file_size |-> Len(data)])],
     blobs |-> [c.blobs EXCEPT ![file_path] = Some(data)]]

\* what put finds: no row ("inserted"), a row and a blob file with the very
\* bytes it writes ("same"), or a row to replace ("replaced")
PutBranch(c, key, result) ==
    LET cache_key == to_cache_key(key)
        file_path == get_cache_file_path(cache_key) IN
    IF ~IsSome(c.index[cache_key]) THEN "inserted"
    ELSE IF c.blobs[file_path] = Some(Serialize(result)) THEN "same"
    ELSE "replaced"

\* AnalysisCache::put: write the blob, then INSERT OR REPLACE the row
CachePut(c, key, result, now) ==
    LET cache_key == to_cache_key(key)
        file_path == get_cache_file_path(cache_key)
        saved     == save_analysis_result(c, file_path, result) IN
    [index |-> [c.index EXCEPT ![cache_key] = Some(
                  [repo_url |-> key.repo_url,
                   commit_hash |-> key.commit_hash,
                   subfolder |-> key.subfolder,
                   analyzer_name |-> key.analyzer_name,
                   analysis_config_hash |-> key.analysis_config_hash,
                   created_at |-> now,
                   last_accessed |-> now,
                   file_count |-> result.analyzed_files,
                   dependency_count |-> result.dependencies,
                   file_size |-> saved.file_size])],
     blobs |-> saved.blobs]

CacheRemoveRepository_every_repository(c, repo_url) ==
    LET cache_keys == { ck \in DOMAIN c.index : IsSome(c.index[ck]) }
        removed_files == { get_cache_file_path(ck) : ck \in
                             { k \in cache_keys : IsSome(c.blobs[get_cache_file_path(k)]) } } IN
    [index |-> [ck \in DOMAIN c.index |-> None],
     blobs |-> [p \in DOMAIN c.blobs |->
                  IF p \in removed_files THEN None ELSE c.blobs[p]],
     removed_files |-> removed_files,
     cache_keys |-> cache_keys]

\* remove_repository: select the keys of the repository, delete their blob
\* files, delete the rows; returns the paths of the files it deleted
CacheRemoveRepository(c, repo_url) ==
    LET cache_keys == { ck \in DOMAIN c.index :
                          IsSome(c.index[ck]) /\ c.index[ck][1].repo_url = repo_url }
        removed_files == { get_cache_file_path(ck) : ck \in
                             { k \in cache_keys : IsSome(c.blobs[get_cache_file_path(k)]) } } IN
    [index |-> [ck \in DOMAIN c.index |->
                  IF ck \in cache_keys THEN None ELSE c.index[ck]],
     blobs |-> [p \in DOMAIN c.blobs |->
                  IF p \in removed_files THEN None ELSE c.blobs[p]],
     removed_files |-> removed_files,
     cache_keys |-> cache_keys]

SecondsPerDay == 24 * 3600

\* Self::current_timestamp() - (max_age_days * 24 * 3600) in u64: the
\* subtraction underflows when the window reaches back before time zero
CutoffUnderflows(max_age_days, now) == max_age_days * SecondsPerDay > now

\* cleanup_old_entries when the cutoff is computed without underflow:
\* cutoff = now - max_age_days * 24 * 3600
CacheCleanupOldEntries(c, max_age_days, now) ==
    LET cutoff_timestamp == now - (max_age_days * SecondsPerDay)
        cache_keys == { ck \in DOMAIN c.index :
                          IsSome(c.index[ck])
                          /\ c.index[ck][1].last_accessed < cutoff_timestamp } IN
    [index |-> [ck \in DOMAIN c.index |->
                  IF ck \in cache_keys THEN None ELSE c.index[ck]],
     blobs |-> [p \in DOMAIN c.blobs |->
                  IF \E ck \in cache_keys : p = get_cache_file_path(ck)
                  THEN None ELSE c.blobs[p]],
     removed_count |-> Cardinality(cache_keys),
     cache_keys |-> cache_keys]

\* get_statistics: COUNT(*) (the part clear_all reads)
CacheTotalEntries(c) == Cardinality({ ck \in DOMAIN c.index : IsSome(c.index[ck]) })

RECURSIVE SumOver(_, _)
SumOver(f, keys) ==
    IF keys = {} THEN 0
    ELSE LET k == CHOOSE x \in keys : TRUE IN f[k] + SumOver(f, keys \ {k})

\* the rows of the index (their cache keys)
Rows(c) == { ck \in DOMAIN c.index : IsSome(c.index[ck]) }

\* the statistics read from the blob files instead of the index
CacheGetStatistics_of_files(c) ==
    LET files == { p \in DOMAIN c.blobs : IsSome(c.blobs[p]) }
        urls == { Unwrap(c.index[ck]).repo_url : ck \in Rows(c) } IN
    [total_entries |-> Cardinality(files),
     total_size_bytes |-> SumOver([p \in files |-> Len(Unwrap(c.blobs[p]))], files),
     repositories |->
        [u \in urls |-> Cardinality({ ck \in Rows(c) :
            /\ Unwrap(c.index[ck]).repo_url = u
            /\ IsSome(c.blobs[get_cache_file_path(ck)]) })]]

\* get_statistics: COUNT(*) and COALESCE(SUM(file_size), 0) over the index,
\* then COUNT(*) GROUP BY repo_url into the repositories map
CacheGetStatistics(c) ==
    LET urls == { Unwrap(c.index[ck]).repo_url : ck \in Rows(c) } IN
    [total_entries |-> CacheTotalEntries(c),
     total_size_bytes |->
        SumOver([ck \in Rows(c) |-> Unwrap(c.index[ck]).file_size], Rows(c)),
     repositories |->
        [u \in urls |->
            Cardinality({ ck \in Rows(c) : Unwrap(c.index[ck]).repo_url = u })]]

CacheClearAll_keeps_files(c) ==
    [index |-> [ck \in DOMAIN c.index |-> None],
     blobs |-> c.blobs,
     total_entries |-> CacheTotalEntries(c)]


\* clear_all that removed the files and kept the table
CacheClearAll_keeps_rows(c) ==
    [index |-> c.index,
     blobs |-> [p \in DOMAIN c.blobs |-> None],
     total_entries |-> CacheTotalEntries(c)]

\* clear_all: remove every *.bincode file of analysis/, delete every row
CacheClearAll(c) ==
    [index |-> [ck \in DOMAIN c.index |-> None],
     blobs |-> [p \in DOMAIN c.blobs |-> None],
     total_entries |-> CacheTotalEntries(c)]


-----------------------------------------------------------------------------
(* The parts a specification leaves alone *)

\* a call of the navigator: the operation, its argument (the subfolder filter
\* or the commit hash), "ok" or "err", and the sequence, the tracked commit
\* and the detached HEAD the call found
NavReturned(op, subfolder, hash, outcome, sequence, tracked, detached) ==
    [op |-> op, subfolder |-> subfolder, hash |-> hash, outcome |-> outcome,
     before |-> [merge_sequence |-> sequence, current_commit |-> tracked,
                 detached_at |-> detached]]

NoCall == NavReturned("none", None, 0, "none", <<>>, None, None)

\* the loop of build_merge_sequence_with_subfolder: the filter, current_commit
\* (a position of the chain), total_commits, sequence, visited, and where the
\* loop is: "idle", "walking", or "stopped" with the break that ended it
Walk(status, subfolder, position, total_commits, sequence, visited, reason) ==
    [status |-> status, subfolder |-> subfolder, position |-> position,
     total_commits |-> total_commits, sequence |-> sequence,
     visited |-> visited, reason |-> reason]

NoWalk == Walk("idle", None, 0, 0, <<>>, {}, "none")

\* no repository opened, no run started
NoRun ==
    /\ history = <<>>
    /\ merge_sequence = <<>>
    /\ head = 0
    /\ current_commit = None
    /\ detached_at = None
    /\ local_branch = 0
    /\ nav_ret = NoCall
    /\ walk = NoWalk
    /\ config = None
    /\ cache_opened = FALSE
    /\ cached_before = None
    /\ pc = "idle"
    /\ commits_to_analyze = <<>>
    /\ loop_index = 0
    /\ snapshots = <<>>
    /\ events = <<>>
    /\ run_result = None
    /\ attempts = <<>>

NoSample ==
    /\ sample_in = [merge_sequence |-> <<>>, commit_sampling |-> 1,
                    max_commits |-> None]
    /\ sample_out = None

-----------------------------------------------------------------------------
(* AnalyzerRegistry *)

\* the names analyzers are registered, looked up and made default under
RegistryNames == { "lakos", "test" }

\* the versions of the analyzers registered under one name
RegistryVersions == { 1, 2 }

\* AnalyzerRegistry::new; analyzers maps a name to Option<the version of the
\* analyzer registered under it>
registry_new == [analyzers |-> [n \in RegistryNames |-> None], default_analyzer |-> None]

contains_key(reg, name) == IsSome(reg.analyzers[name])

register_last_wins(reg, name, version) ==
    [analyzers |-> [reg.analyzers EXCEPT ![name] = Some(version)],
     default_analyzer |-> Some(name)]

\* AnalyzerRegistry::register
register(reg, name, version) ==
    [analyzers |-> [reg.analyzers EXCEPT ![name] = Some(version)],
     default_analyzer |-> IF reg.default_analyzer = None
                          THEN Some(name)
                          ELSE reg.default_analyzer]

\* AnalyzerRegistry::get_analyzer
get_analyzer(reg, name) == reg.analyzers[name]

\* AnalyzerRegistry::get_default_analyzer
get_default_analyzer(reg) ==
    IF IsSome(reg.default_analyzer)
    THEN get_analyzer(reg, Unwrap(reg.default_analyzer))
    ELSE None

AnalyzerInfo(name, version, is_default) ==
    [name |-> name, version |-> version, is_default |-> is_default]

\* AnalyzerRegistry::list_analyzers; the Vec follows the iteration order of
\* the HashMap, so it is taken as the set of its elements
list_analyzers(reg) ==
    { AnalyzerInfo(n, Unwrap(reg.analyzers[n]), reg.default_analyzer = Some(n)) : n \in { x \in RegistryNames : contains_key(reg, x) } }

\* AnalyzerRegistry::set_default_analyzer: the registry and "ok" or "err"
set_default_analyzer(reg, name) ==
    IF contains_key(reg, name)
    THEN [registry |-> [reg EXCEPT !.default_analyzer = Some(name)],
          outcome |-> "ok"]
    ELSE [registry |-> reg, outcome |-> "err"]

\* a call of the registry: the operation, the name it was given, "ok" or
\* "err", the analyzer found, the listing, the default the call found, and
\* the name registered first and the name a set_default_analyzer that
\* returned Ok was given last
RegReturned(op, name, outcome, found, listing, default_before, first, last_set) ==
    [op |-> op, name |-> name, outcome |-> outcome, found |-> found,
     listing |-> listing, default_before |-> default_before,
     first |-> first, last_set |-> last_set]

\* what a command returned: the command, the engine it concerned (0: none)
\* and "ok", "err", "aborted" or "no_analysis"
CommandReturned(op, engine, outcome) ==
    [op |-> op, engine |-> engine, outcome |-> outcome]

\* the state behind the commands: slot is the Option<ChronoGraphEngine> in
\* the mutex (engines are numbered in the order they are made), urls the
\* github_url of each engine made ("" before), runs which engines a worker
\* task is running, installed the engine initialize_analysis stored last
\* (None after cleanup_analysis)
CommandState(slot, made, urls, runs, installed, returned) ==
    [slot |-> slot, made |-> made, urls |-> urls, runs |-> runs,
     installed |-> installed, ret |-> returned]

\* the application has started: ChronoGraphState holds None
NoCommands ==
    commands = CommandState(None, 0, [e \in 1..MaxEngines |-> ""],
                            [e \in 1..MaxEngines |-> "idle"], None,
                            CommandReturned("none", 0, "ok"))

\* the calls in flight on a shared cache directory: the put of one instance
\* (pc, its arguments, the `now` it read) and the removal of the other (pc,
\* its arguments, the cutoff's `now`, the selected keys whose files are not
\* deleted yet), and whether the get after both was made
InFlight(put, rem, got) == [put |-> put, rem |-> rem, got |-> got]

PutIdle == [pc |-> "idle", key |-> None, result |-> None, now |-> 0]

RemIdle ==
    [pc |-> "idle", op |-> "", repo_url |-> "", max_age_days |-> 0, now |-> 0,
     cache_keys |-> {}]

NoInFlight == in_flight = InFlight(PutIdle, RemIdle, FALSE)

NoRegistry ==
    /\ registry = registry_new
    /\ reg_ret = RegReturned("new", "", "ok", None, {}, None, None, None)

\* no cache key derived on its own
NoKey ==
    /\ key_in = <<>>
    /\ key_out = None

-----------------------------------------------------------------------------
(* SpecCache: one cache instance, its operations in any order *)

CacheState == [index |-> index, blobs |-> blobs]

KeyOfPath(p) == { k \in CacheKeys : get_cache_file_path(to_cache_key(k)) = p }

Returned(op, key, res, outcome, count) ==
    [op |-> op, key |-> key, res |-> res, outcome |-> outcome, count |-> count,
     stats |-> None]

\* the clock starts MaxAge days after time zero: a window of up to MaxAge days
\* stays after time zero, one of MaxAge + 1 days reaches back before it
StartTime == MaxAge * SecondsPerDay

\* AnalysisCache::new on an empty directory
EmptyCache ==
    /\ index = [ck \in CacheKeyStrings |-> None]
    /\ blobs = [p \in CacheFilePaths |-> None]
    /\ clock = StartTime
    /\ ret = Returned("new", None, None, "", 0)
    /\ stored = [k \in CacheKeys |-> None]

InitCache ==
    /\ EmptyCache
    /\ NoSample
    /\ NoKey
    /\ NoRegistry
    /\ NoCommands
    /\ NoInFlight
    /\ NoRun

\* the max_age_days arguments of the model
MaxAgeDays == 0..(MaxAge + 1)

\* the put calls of the model: either result under the first key of repoA,
\* one result under each of the other keys
PutInputs ==
    { <<key, result>> \in CacheKeys \X AnalysisResults :
        \/ key = AnalysisCacheKey("repoA", 101, None, "lakos", "cfg0")
        \/ result.analyzer_name = (IF key.repo_url = "repoA" THEN "lakos" ELSE "test") }

\* time passes (a day at a time)
Tick ==
    /\ clock < StartTime + MaxTime * SecondsPerDay
    /\ clock' = clock + SecondsPerDay
    /\ ret' = Returned("tick", None, None, "", 0)
    /\ UNCHANGED <<index, blobs, stored, nonCacheVars>>

Put(key, result) ==
    LET d == CachePut(CacheState, key, result, clock) IN
    /\ index' = d.index
    /\ blobs' = d.blobs
    /\ ret' = Returned("put", Some(key), None, PutBranch(CacheState, key, result), 0)
    /\ stored' = [stored EXCEPT ![key] = Some(result)]
    /\ UNCHANGED <<clock, nonCacheVars>>

Get(key) ==
    LET d == CacheGet(CacheState, key, clock) IN
    /\ index' = d.index
    /\ blobs' = d.blobs
    /\ ret' = Returned("get", Some(key), d.res, d.outcome, 0)
    /\ UNCHANGED <<clock, stored, nonCacheVars>>

RemoveRepository(repo_url) ==
    LET d == CacheRemoveRepository(CacheState, repo_url) IN
    /\ index' = d.index
    /\ blobs' = d.blobs
    /\ ret' = Returned("remove_repository", None, None, repo_url,
                       Cardinality(d.removed_files))
    /\ stored' = [k \in CacheKeys |->
                    IF k.repo_url = repo_url THEN None ELSE stored[k]]
    /\ UNCHANGED <<clock, nonCacheVars>>

\* cleanup_old_entries.  When the cutoff underflows the call panics (a build
\* with overflow checks) or binds the wrapped value, which exceeds i64::MAX,
\* and returns the conversion error: either way before anything is selected.
CleanupOldEntries(max_age_days) ==
    IF CutoffUnderflows(max_age_days, clock)
    THEN /\ \E outcome \in {"panic", "err"} :
              ret' = Returned("cleanup_old_entries", None, None, outcome, 0)
         /\ UNCHANGED <<index, blobs, stored, clock, nonCacheVars>>
    ELSE LET d == CacheCleanupOldEntries(CacheState, max_age_days, clock) IN
         /\ index' = d.index
         /\ blobs' = d.blobs
         /\ ret' = Returned("cleanup_old_entries", None, None, "ok", d.removed_count)
         /\ stored' = [k \in CacheKeys |->
                         IF to_cache_key(k) \in d.cache_keys THEN None ELSE stored[k]]
         /\ UNCHANGED <<clock, nonCacheVars>>

\* get_statistics: reads the index, writes nothing
GetStatistics ==
    /\ ret' = [Returned("get_statistics", None, None, "ok", 0)
                 EXCEPT !.stats = Some(CacheGetStatistics(CacheState))]
    /\ UNCHANGED <<index, blobs, stored, clock, nonCacheVars>>

ClearAll ==
    LET d == CacheClearAll(CacheState) IN
    /\ index' = d.index
    /\ blobs' = d.blobs
    /\ ret' = Returned("clear_all", None, None, "ok", d.total_entries)
    /\ stored' = [k \in CacheKeys |-> None]
    /\ UNCHANGED <<clock, nonCacheVars>>

\* Something outside the cache overwrites a blob file with bytes that do not
\* deserialize (test_cache_corrupted_file_handling, line 673)
CorruptBlob(file_path, data) ==
    /\ IsSome(blobs[file_path])
    /\ blobs' = [blobs EXCEPT ![file_path] = Some(data)]
    /\ ret' = Returned("corrupt", None, None, "", 0)
    /\ stored' = [k \in CacheKeys |->
                    IF k \in KeyOfPath(file_path) THEN None ELSE stored[k]]
    /\ UNCHANGED <<index, clock, nonCacheVars>>

\* Something outside the cache deletes a blob file
DeleteBlob(file_path) ==
    /\ IsSome(blobs[file_path])
    /\ blobs' = [blobs EXCEPT ![file_path] = None]
    /\ ret' = Returned("delete", None, None, "", 0)
    /\ stored' = [k \in CacheKeys |->
                    IF k \in KeyOfPath(file_path) THEN None ELSE stored[k]]
    /\ UNCHANGED <<index, clock, nonCacheVars>>

NextCache ==
    \/ Tick
    \/ \E input \in PutInputs : Put(input[1], input[2])
    \/ \E key \in CacheKeys : Get(key)
    \/ \E repo_url \in Repos : RemoveRepository(repo_url)
    \/ \E max_age_days \in MaxAgeDays : CleanupOldEntries(max_age_days)
    \/ GetStatistics
    \/ ClearAll
    \/ \E file_path \in CacheFilePaths, data \in CorruptedData :
          CorruptBlob(file_path, data)
    \/ \E file_path \in CacheFilePaths : DeleteBlob(file_path)

SpecCache == InitCache /\ [][NextCache]_vars

-----------------------------------------------------------------------------
(* One AnalysisCache whose file operations succeed (SpecCacheOps): the same *)
(* operations with nothing outside the cache touching analysis/, and a put  *)
(* that stops between its two steps                                         *)

\* put stopped after save_analysis_result (line 229) and before the INSERT OR
\* REPLACE (line 232): the blob file is written, the table is as it was
CachePutInterrupted(c, key, result) ==
    LET cache_key == to_cache_key(key)
        file_path == get_cache_file_path(cache_key) IN
    [index |-> c.index,
     blobs |-> save_analysis_result(c, file_path, result).blobs]

PutInterrupted(key, result) ==
    LET d == CachePutInterrupted(CacheState, key, result) IN
    /\ index' = d.index
    /\ blobs' = d.blobs
    /\ ret' = Returned("put", Some(key), None, "interrupted", 0)
    /\ stored' = [stored EXCEPT ![key] = None]
    /\ UNCHANGED <<clock, nonCacheVars>>

NextCacheOps ==
    \/ Tick
    \/ \E input \in PutInputs : Put(input[1], input[2])
    \/ \E input \in PutInputs : PutInterrupted(input[1], input[2])
    \/ \E key \in CacheKeys : Get(key)
    \/ \E repo_url \in Repos : RemoveRepository(repo_url)
    \/ \E max_age_days \in MaxAgeDays : CleanupOldEntries(max_age_days)
    \/ GetStatistics
    \/ ClearAll

SpecCacheOps == InitCache /\ [][NextCacheOps]_vars

-----------------------------------------------------------------------------
(* Two AnalysisCache instances on one cache directory (SpecShared): one     *)
(* makes a put, the other a remove_repository or a cleanup_old_entries, a   *)
(* statement or a file operation at a time, and a get follows both.  The    *)
(* ghost `stored` of the one-instance specifications is not kept here.      *)

\* put, first step (lines 224-229): read the time, write the blob file
PutWritesBlob(key, result) ==
    /\ in_flight.put.pc = "idle"
    /\ ~in_flight.got
    /\ blobs' = CachePutInterrupted(CacheState, key, result).blobs
    /\ in_flight' = [in_flight EXCEPT !.put =
                        [pc |-> "written", key |-> Some(key),
                         result |-> Some(result), now |-> clock]]
    /\ UNCHANGED <<index, clock, ret, stored>>
    /\ UNCHANGED <<sampleVars, keyVars, registryVars, commands, navVars, runVars>>

\* put, second step (lines 232-252): INSERT OR REPLACE the row
PutInsertsRow ==
    LET put == in_flight.put IN
    /\ put.pc = "written"
    /\ index' = CachePut(CacheState, Unwrap(put.key), Unwrap(put.result), put.now).index
    /\ in_flight' = [in_flight EXCEPT !.put.pc = "done"]
    /\ UNCHANGED <<blobs, clock, ret, stored>>
    /\ UNCHANGED <<sampleVars, keyVars, registryVars, commands, navVars, runVars>>

\* remove_repository, first step (lines 262-268): SELECT cache_key WHERE repo_url = ?
RemoveRepositorySelects(repo_url) ==
    /\ in_flight.rem.pc = "idle"
    /\ ~in_flight.got
    /\ in_flight' = [in_flight EXCEPT !.rem =
                        [pc |-> "selected", op |-> "remove_repository",
                         repo_url |-> repo_url, max_age_days |-> 0, now |-> 0,
                         cache_keys |->
                            CacheRemoveRepository(CacheState, repo_url).cache_keys]]
    /\ UNCHANGED cacheVars
    /\ UNCHANGED <<sampleVars, keyVars, registryVars, commands, navVars, runVars>>

\* cleanup_old_entries, first step (lines 290-299): compute the cutoff (the
\* call ends there when it underflows), SELECT cache_key WHERE last_accessed < ?
CleanupSelects(max_age_days) ==
    /\ in_flight.rem.pc = "idle"
    /\ ~in_flight.got
    /\ ~CutoffUnderflows(max_age_days, clock)
    /\ in_flight' = [in_flight EXCEPT !.rem =
                        [pc |-> "selected", op |-> "cleanup_old_entries",
                         repo_url |-> "", max_age_days |-> max_age_days,
                         now |-> clock,
                         cache_keys |->
                            CacheCleanupOldEntries(CacheState, max_age_days, clock).cache_keys]]
    /\ UNCHANGED cacheVars
    /\ UNCHANGED <<sampleVars, keyVars, registryVars, commands, navVars, runVars>>

\* one turn of either loop over the selected keys (lines 271-277, 304-309):
\* remove the key's file if it exists
RemoverDeletesBlob(cache_key) ==
    /\ in_flight.rem.pc = "selected"
    /\ cache_key \in in_flight.rem.cache_keys
    /\ blobs' = [blobs EXCEPT ![get_cache_file_path(cache_key)] = None]
    /\ in_flight' = [in_flight EXCEPT !.rem.cache_keys = @ \ {cache_key}]
    /\ UNCHANGED <<index, clock, ret, stored>>
    /\ UNCHANGED <<sampleVars, keyVars, registryVars, commands, navVars, runVars>>

\* the last statement of either removal (lines 280-283, 312-315): DELETE with
\* the WHERE clause of the SELECT, evaluated on the table as it is now
RemoverDeletesRows ==
    LET rem == in_flight.rem IN
    /\ rem.pc = "selected"
    /\ rem.cache_keys = {}
    /\ index' = IF rem.op = "remove_repository"
                THEN CacheRemoveRepository(CacheState, rem.repo_url).index
                ELSE CacheCleanupOldEntries(CacheState, rem.max_age_days, rem.now).index
    /\ in_flight' = [in_flight EXCEPT !.rem.pc = "done"]
    /\ UNCHANGED <<blobs, clock, ret, stored>>
    /\ UNCHANGED <<sampleVars, keyVars, registryVars, commands, navVars, runVars>>

\* get of the key that was put, by either instance, after both calls returned
LaterGet ==
    LET d == CacheGet(CacheState, Unwrap(in_flight.put.key), clock) IN
    /\ in_flight.put.pc = "done"
    /\ in_flight.rem.pc = "done"
    /\ ~in_flight.got
    /\ index' = d.index
    /\ blobs' = d.blobs
    /\ ret' = Returned("get", in_flight.put.key, d.res, d.outcome, 0)
    /\ in_flight' = [in_flight EXCEPT !.got = TRUE]
    /\ UNCHANGED <<clock, stored>>
    /\ UNCHANGED <<sampleVars, keyVars, registryVars, commands, navVars, runVars>>

\* the two instances make their next calls on the directory as it is
NextCalls ==
    /\ in_flight.got
    /\ in_flight' = InFlight(PutIdle, RemIdle, FALSE)
    /\ UNCHANGED cacheVars
    /\ UNCHANGED <<sampleVars, keyVars, registryVars, commands, navVars, runVars>>

NextShared ==
    \/ ~in_flight.got /\ Tick
    \/ \E input \in PutInputs : PutWritesBlob(input[1], input[2])
    \/ PutInsertsRow
    \/ \E repo_url \in Repos : RemoveRepositorySelects(repo_url)
    \/ \E max_age_days \in MaxAgeDays : CleanupSelects(max_age_days)
    \/ \E cache_key \in CacheKeyStrings : RemoverDeletesBlob(cache_key)
    \/ RemoverDeletesRows
    \/ LaterGet
    \/ NextCalls

SpecShared == InitCache /\ [][NextShared]_vars




-----------------------------------------------------------------------------
(* Commit sampling (chronograph_engine.rs:413-455) *)

\* CommitInfo, reduced to its hash
CommitInfo(hash) == [hash |-> hash]

RECURSIVE StrideFrom_one_based(_, _, _)
StrideFrom_one_based(sequence, commit_sampling, position) ==
    IF position > Len(sequence) THEN <<>>
    ELSE LET take == \/ position = 1
                     \/ position = Len(sequence)
                     \/ position % commit_sampling = 0 IN
         (IF take THEN <<sequence[position]>> ELSE <<>>)
            \o StrideFrom_one_based(sequence, commit_sampling, position + 1)

\* The first loop of sample_commits: 0-based index, first and last always,
\* the others when index % commit_sampling == 0.  Collects the commits of
\* positions from..Len (1-based position = index + 1).
RECURSIVE StrideFrom(_, _, _)
StrideFrom(sequence, commit_sampling, position) ==
    IF position > Len(sequence) THEN <<>>
    ELSE LET idx == position - 1
             take == \/ idx = 0
                     \/ idx = Len(sequence) - 1
                     \/ idx % commit_sampling = 0 IN
         (IF take THEN <<sequence[position]>> ELSE <<>>)
            \o StrideFrom(sequence, commit_sampling, position + 1)

StrideSample(sequence, commit_sampling) ==
    StrideFrom(sequence, commit_sampling, 1)

\* index % 0 is evaluated (and panics) for the first index that is neither 0
\* nor the last
StridePanics(sequence, commit_sampling) ==
    commit_sampling = 0 /\ Len(sequence) >= 3

\* for i in 0..max_commits { if i * step < sampled.len() { push sampled[i * step] } }
RECURSIVE LimitedFrom(_, _, _, _)
LimitedFrom(sampled, max_commits, step, i) ==
    IF i >= max_commits THEN <<>>
    ELSE (IF i * step < Len(sampled) THEN <<sampled[i * step + 1]>> ELSE <<>>)
            \o LimitedFrom(sampled, max_commits, step, i + 1)

HasHash(commits, hash) == \E j \in 1..Len(commits) : commits[j].hash = hash

LimitSample_without_last(sampled, max_commits) ==
    IF Len(sampled) > max_commits
    THEN LimitedFrom(sampled, max_commits, Len(sampled) \div max_commits, 0)
    ELSE sampled

\* The max_commits branch (lines 431-452), max_commits > 0: even-stride
\* re-sampling, then the last sampled commit is appended unless its hash is
\* already there
LimitSample(sampled, max_commits) ==
    IF Len(sampled) > max_commits
    THEN LET step == Len(sampled) \div max_commits
             limited == LimitedFrom(sampled, max_commits, step, 0)
             last == sampled[Len(sampled)] IN
         IF ~HasHash(limited, last.hash) THEN Append(limited, last) ELSE limited
    ELSE sampled

\* sampled.len() / max_commits panics when max_commits is 0
LimitPanics(sampled, max_commits) ==
    IsSome(max_commits) /\ Unwrap(max_commits) = 0 /\ Len(sampled) > 0

\* sample_commits: what it returns, or that it panicked
sample_commits(sequence, commit_sampling, max_commits) ==
    IF StridePanics(sequence, commit_sampling)
    THEN [panic |-> TRUE, commits |-> <<>>]
    ELSE LET sampled == IF commit_sampling = 0
                        THEN sequence     \* fewer than 3 commits: all taken
                        ELSE StrideSample(sequence, commit_sampling) IN
         IF LimitPanics(sampled, max_commits)
         THEN [panic |-> TRUE, commits |-> <<>>]
         ELSE [panic |-> FALSE,
               commits |-> IF IsSome(max_commits) /\ Unwrap(max_commits) > 0
                           THEN LimitSample(sampled, Unwrap(max_commits))
                           ELSE sampled]

-----------------------------------------------------------------------------
(* SpecSample: sample_commits on any sequence, stride and maximum *)

\* a commit sequence of n commits with distinct hashes
TestSequence(n) == [i \in 1..n |-> CommitInfo(100 + i)]

InitSample ==
    /\ \E n \in 0..MaxSeq, s \in 0..MaxStride,
          m \in {None} \cup { Some(x) : x \in 0..MaxMax } :
          sample_in = [merge_sequence |-> TestSequence(n), commit_sampling |-> s,
                       max_commits |-> m]
    /\ sample_out = None
    /\ NoKey
    /\ NoRegistry
    /\ NoCommands
    /\ NoInFlight
    /\ EmptyCache
    /\ NoRun

SampleCommits ==
    /\ sample_out = None
    /\ sample_out' = Some(sample_commits(sample_in.merge_sequence,
                                         sample_in.commit_sampling,
                                         sample_in.max_commits))
    /\ UNCHANGED <<sample_in, nonSampleVars>>

NextSample == SampleCommits

SpecSample == InitSample /\ [][NextSample]_vars

-----------------------------------------------------------------------------
(* SpecKey: two cache keys derived from inputs that differ in one field *)

\* the strings "a", "b", "ab", "c", "bc", "" as bytes
KeyRepoUrls == { <<97>>, <<97, 98>> }

KeyCommitHashes == { <<98, 99>>, <<99>> }

KeySubfolders == { None, Some(<<>>), Some(<<97>>) }

KeyAnalyzerNames == { <<108>>, <<116>> }

KeyIgnorePatterns == { <<>>, << <<97>>, <<98>> >>, << <<97, 98>> >>, << <<98>>, <<97>> >> }

KeyFileExtensions == { <<>>, << <<100>> >> }

KeyMaxDepths == { None, Some(0), Some(1) }

\* analyzer_config maps: {}, {a: x}, {a: y}, and {a: x, b: x} in both
\* iteration orders
KeyAnalyzerConfigs ==
    { <<>>,
      << <<<<97>>, <<120>>>> >>,
      << <<<<97>>, <<121>>>> >>,
      << <<<<97>>, <<120>>>>, <<<<98>>, <<120>>>> >>,
      << <<<<98>>, <<120>>>>, <<<<97>>, <<120>>>> >> }

KeyConfigs ==
    { AnalysisConfig(ip, fe, md, fs, ac) :
        ip \in KeyIgnorePatterns, fe \in KeyFileExtensions, md \in KeyMaxDepths,
        fs \in BOOLEAN, ac \in KeyAnalyzerConfigs }

KeyInput(repo_url, commit_hash, subfolder, analyzer_name, analysis_config) ==
    [repo_url |-> repo_url, commit_hash |-> commit_hash, subfolder |-> subfolder,
     analyzer_name |-> analyzer_name, analysis_config |-> analysis_config]

KeyInputs ==
    { KeyInput(r, c, s, a, cfg) :
        r \in KeyRepoUrls, c \in KeyCommitHashes, s \in KeySubfolders,
        a \in KeyAnalyzerNames, cfg \in KeyConfigs }

\* the inputs that differ from t in at most one field of the tuple or of its
\* AnalysisConfig
OneFieldFrom(t) ==
    { [t EXCEPT !.repo_url = r] : r \in KeyRepoUrls }
    \cup { [t EXCEPT !.commit_hash = c] : c \in KeyCommitHashes }
    \cup { [t EXCEPT !.subfolder = s] : s \in KeySubfolders }
    \cup { [t EXCEPT !.analyzer_name = a] : a \in KeyAnalyzerNames }
    \cup { [t EXCEPT !.analysis_config.ignore_patterns = ip] : ip \in KeyIgnorePatterns }
    \cup { [t EXCEPT !.analysis_config.file_extensions = fe] : fe \in KeyFileExtensions }
    \cup { [t EXCEPT !.analysis_config.max_depth = md] : md \in KeyMaxDepths }
    \cup { [t EXCEPT !.analysis_config.follow_symlinks = fs] : fs \in BOOLEAN }
    \cup { [t EXCEPT !.analysis_config.analyzer_config = ac] : ac \in KeyAnalyzerConfigs }

InitKey ==
    /\ \E t \in KeyInputs : \E u \in OneFieldFrom(t) : key_in = <<t, u>>
    /\ key_out = None
    /\ NoSample
    /\ NoRegistry
    /\ NoCommands
    /\ NoInFlight
    /\ EmptyCache
    /\ NoRun

\* AnalysisCacheKey::new(..).to_cache_key() for one input
DeriveKey(t) ==
    to_cache_key_bytes(AnalysisCacheKey_new(t.repo_url, t.commit_hash, t.subfolder,
                                            t.analyzer_name, t.analysis_config))

\* both keys are derived
DeriveKeys ==
    /\ key_out = None
    /\ key_out' = Some(<<DeriveKey(key_in[1]), DeriveKey(key_in[2])>>)
    /\ UNCHANGED <<key_in, registryVars, commands, in_flight, cacheVars, sampleVars, navVars, runVars>>

NextKey == DeriveKeys

SpecKey == InitKey /\ [][NextKey]_vars


-----------------------------------------------------------------------------
(* The repository: paths, trees, the first-parent chain *)

\* File paths are strings, modelled as sequences of characters:
\*   "p"  pubspec.yaml (the marker file of a Dart project)
\*   "a"  the directory a subfolder scope names, "ab" a sibling of it
Slash == <<"/">>

Marker == <<"p">>

Subfolder == <<"a">>

TreeChoices ==
    { { <<"r">> },                                          \* no project
      { <<"r">>, <<"p">> },                                 \* project at the root
      { <<"r">>, <<"a", "/", "x">> },                       \* subfolder, no project
      { <<"r">>, <<"a", "/", "p">>, <<"a", "/", "x">> },    \* project in the subfolder
      { <<"p">>, <<"a", "b", "/", "x">> } }                 \* project at the root, sibling dir

\* str::starts_with
StartsWith(path, prefix) ==
    /\ Len(path) >= Len(prefix)
    /\ SubSeq(path, 1, Len(prefix)) = prefix

\* Path::join on a path relative to the repository root (<<>> is the root)
Join(base, name) == IF base = <<>> THEN name ELSE base \o Slash \o name

\* Path::exists in a checked-out tree: a file of that name, or a directory
\* holding files
PathExists(tree, path) ==
    \/ path = <<>>
    \/ \E f \in tree : f = path \/ StartsWith(f, path \o Slash)

\* the hash of the commit at a position of the chain (1 = root)
HashOf(position) == 100 + position

PositionOf(hash) == hash - 100

Histories == UNION { [1..n -> TreeChoices] : n \in 1..MaxCommits }

\* extract_commit_info
extract_commit_info(position) == CommitInfo(HashOf(position))

\* tree_contains_subfolder / tree_has_path: the path names a directory of the
\* commit's tree
tree_contains_subfolder(tree, subfolder) ==
    \E f \in tree : StartsWith(f, subfolder \o Slash)

\* the paths of the deltas of diff_tree_to_tree(parent, commit): files added
\* or deleted between the two trees
DiffPaths(parent_tree, tree) == (tree \ parent_tree) \cup (parent_tree \ tree)

commit_touches_subfolder_by_prefix(chain, position, subfolder) ==
    IF position = 1
    THEN tree_contains_subfolder(chain[position], subfolder)
    ELSE \E file_path \in DiffPaths(chain[position - 1], chain[position]) :
            StartsWith(file_path, subfolder)

\* commit_touches_subfolder
commit_touches_subfolder(chain, position, subfolder) ==
    IF position = 1
    THEN tree_contains_subfolder(chain[position], subfolder)
    ELSE \E file_path \in DiffPaths(chain[position - 1], chain[position]) :
            \/ StartsWith(file_path, subfolder \o Slash)
            \/ file_path = subfolder

WalkCap == 100      \* if total_commits > 100 { break }

MatchLimit == 1     \* if filtered_commits >= 1 { break }

\* The loop of build_merge_sequence_with_subfolder, from the commit at
\* `position` towards the root; sequence holds the commits pushed so far
\* (newest first), total_commits the commits already inspected.
RECURSIVE WalkFirstParents(_, _, _, _, _)
WalkFirstParents(chain, subfolder, position, total_commits, sequence) ==
    LET total == total_commits + 1
        should_include ==
            IF IsSome(subfolder)
            THEN commit_touches_subfolder(chain, position, Unwrap(subfolder))
            ELSE TRUE
        pushed == IF should_include
                  THEN Append(sequence, extract_commit_info(position))
                  ELSE sequence IN
    IF should_include /\ Len(pushed) >= MatchLimit THEN pushed
    ELSE IF total > WalkCap THEN pushed
    ELSE IF position = 1 THEN pushed
    ELSE WalkFirstParents(chain, subfolder, position - 1, total, pushed)

Reverse(seq) == [i \in 1..Len(seq) |-> seq[Len(seq) + 1 - i]]

\* build_merge_sequence_with_subfolder: walk from the branch tip, reverse
build_merge_sequence_with_subfolder(chain, subfolder) ==
    Reverse(WalkFirstParents(chain, subfolder, Len(chain), 0, <<>>))


-----------------------------------------------------------------------------
(* The engine: configuration, progress events, analyze_commit *)

\* ChronoGraphConfig as initialize_analysis builds it: the url, the overrides
\* commit_sampling, max_commits and subfolder, the default analyzer
RunConfigs ==
    [github_url : {"repoA"},
     subfolder : {None, Some(Subfolder)},
     commit_sampling : {1, 2},
     max_commits : {None, Some(0), Some(2)},
     analyzer_name : {"lakos"},
     analysis_config_hash : {"cfg0"}]

\* percentages are fractions num/den
Pct(num, den) == [num |-> num, den |-> den]

LoopPct_counting_down(idx, analysis_count) ==
    Pct(15 * analysis_count + 80 * (analysis_count - idx), analysis_count)

\* 15.0 + (index / analysis_count) * 80.0
LoopPct(idx, analysis_count) ==
    Pct(15 * analysis_count + 80 * idx, analysis_count)

\* AnalysisProgress (current_commit_hash 0 is the empty string)
AnalysisProgress(phase, current, total, hash, message, percentage) ==
    [phase |-> phase, current_commit |-> current, total_commits |-> total,
     current_commit_hash |-> hash, message |-> message,
     percentage |-> percentage]

\* the progress slot of start_analysis: the callback overwrites it with every
\* event, get_analysis_progress reads it
ProgressSlot == IF events = <<>> THEN None ELSE Some(events[Len(events)])

\* the analysis path of a run: the repository root or the subfolder
AnalysisPath(cfg) ==
    IF IsSome(cfg.subfolder) THEN Join(<<>>, Unwrap(cfg.subfolder)) ELSE <<>>

\* LakosAnalyzer::is_dart_project: pubspec.yaml exists in the directory
is_dart_project(tree, project_path) == Join(project_path, Marker) \in tree

\* can_analyze_project (the analyzer tool itself is installed)
can_analyze_project(tree, project_path) == is_dart_project(tree, project_path)

\* analyze_project: the result for a directory of a tree
analyze_project(tree, project_path) ==
    LET files == { f \in tree : project_path = <<>>
                                \/ StartsWith(f, project_path \o Slash) } IN
    [dependencies |-> IF Cardinality(files) > 0 THEN Cardinality(files) - 1 ELSE 0,
     analyzed_files |-> Cardinality(files),
     analyzer_name |-> "lakos"]

\* the cache key analyze_commit computes for a commit
CommitCacheKey(cfg, hash) ==
    AnalysisCacheKey(cfg.github_url, hash, cfg.subfolder, cfg.analyzer_name,
                     cfg.analysis_config_hash)

\* analyze_commit after a successful checkout, up to the cache lookup: why
\* the commit cannot be analysed, or "ready"
PreAnalysis(cfg, tree) ==
    IF IsSome(cfg.subfolder) /\ ~PathExists(tree, AnalysisPath(cfg))
    THEN "subfolder_missing"          \* "Subfolder '..' does not exist at commit .."
    ELSE IF ~can_analyze_project(tree, AnalysisPath(cfg))
    THEN "cannot_analyze"             \* "Cannot analyze project at commit ..: Required project files not found"
    ELSE "ready"

is_infrastructure_error_missing_files(outcome) ==
    outcome \in {"checkout_failed", "cannot_analyze", "subfolder_missing"}

\* the classification of an analyze_commit error by its message: the message
\* contains "Failed to checkout commit" (or "Directory listing failed", which
\* no error of analyze_commit carries).  No subfolder name or hash of the
\* model contains either phrase.
is_infrastructure_error(outcome) == outcome = "checkout_failed"

is_missing_project_files(outcome) == outcome = "cannot_analyze"

CommitSnapshot(commit_info, analysis_result, project_path) ==
    [commit_info |-> commit_info, analysis_result |-> analysis_result,
     project_path |-> project_path]

\* one analyze_commit call: its commit, how it ended ("checkout_failed",
\* "subfolder_missing", "cannot_analyze", "cache_hit", "analysis_failed",
\* "analyzed"), what the cache lookup gave and what the cache write gave
\* ("none" where the call did not get that far)
Attempt(hash, outcome, lookup, put) ==
    [hash |-> hash, outcome |-> outcome, lookup |-> lookup, put |-> put]

\* a formatted message: the format string and the numbers it interpolates
Message(text, a, b, c, d) == [text |-> text, args |-> <<a, b, c, d>>]

CloningEvent ==
    AnalysisProgress("Cloning", 0, 0, 0,
                     Message("Cloning repository", 0, 0, 0, 0), Pct(0, 1))

BuildingEvent(total_commits) ==
    AnalysisProgress("BuildingCommitSequence", 0, total_commits, 0,
                     Message("Found commits in merge sequence", total_commits, 0, 0, 0),
                     Pct(10, 1))

AnalyzingEvent(analysis_count) ==
    AnalysisProgress("AnalyzingCommits", 0, analysis_count, 0,
                     Message("Analyzing commits", analysis_count, 0, 0, 0),
                     Pct(15, 1))

CommitEvent_as_building(idx, analysis_count, commit_info) ==
    AnalysisProgress("BuildingCommitSequence", idx + 1, analysis_count,
                     commit_info.hash,
                     Message("Analyzing commit", commit_info.hash, 0, 0, 0),
                     LoopPct(idx, analysis_count))

\* the event at the top of the loop body (index counts from 0)
CommitEvent(idx, analysis_count, commit_info) ==
    AnalysisProgress("AnalyzingCommits", idx + 1, analysis_count, commit_info.hash,
                     Message("Analyzing commit", commit_info.hash, 0, 0, 0),
                     LoopPct(idx, analysis_count))

InfrastructureFailedEvent_still_analyzing(idx, analysis_count, commit_info) ==
    CommitEvent(idx, analysis_count, commit_info)

\* the event of the is_infrastructure_error branch; error_msg is the outer
\* context of the error, "Failed to checkout commit"
InfrastructureFailedEvent(idx, analysis_count, commit_info) ==
    AnalysisProgress("Failed", idx + 1, analysis_count, commit_info.hash,
                     Message("Failed to checkout commit", 0, 0, 0, 0),
                     LoopPct(idx, analysis_count))

NoSnapshotsEvent_at_95(analysis_count) ==
    AnalysisProgress("Failed", analysis_count, analysis_count, 0,
                     Message("Failed to analyze any commits", 0, 0, 0, 0),
                     Pct(95, 1))

NoSnapshotsEvent(analysis_count) ==
    AnalysisProgress("Failed", analysis_count, analysis_count, 0,
                     Message("Failed to analyze any commits", 0, 0, 0, 0),
                     Pct(100, 1))

\* (snapshots.len() as f64 / analysis_count as f64 * 100.0) as usize
success_rate(snapshot_count, analysis_count) ==
    (snapshot_count * 100) \div analysis_count

CompletedEvent(snapshot_count, analysis_count) ==
    AnalysisProgress("Completed", analysis_count, analysis_count, 0,
        IF snapshot_count < analysis_count
        THEN Message("commits analyzed successfully, success rate, commits skipped",
                     snapshot_count, analysis_count,
                     success_rate(snapshot_count, analysis_count),
                     analysis_count - snapshot_count)
        ELSE Message("snapshots generated", snapshot_count, 0, 0, 0),
        Pct(100, 1))

\* every commit of the chain, oldest first
FullChain(chain) == [i \in 1..Len(chain) |-> extract_commit_info(i)]

\* the last j commits of the chain, oldest first
LastCommits(chain, j) ==
    [i \in 1..j |-> extract_commit_info(Len(chain) - j + i)]



-----------------------------------------------------------------------------
(* Spec: analyze_repository, from the first event to the return *)

\* the cache directory an earlier run of the same configuration left behind:
\* a result for every commit of the chain that can be analysed
WarmCache(chain, cfg) ==
    LET RECURSIVE Fill(_, _)
        Fill(c, position) ==
            IF position > Len(chain) THEN c
            ELSE IF PreAnalysis(cfg, chain[position]) = "ready"
            THEN Fill(CachePut(c, CommitCacheKey(cfg, HashOf(position)),
                               analyze_project(chain[position], AnalysisPath(cfg)),
                               StartTime),
                      position + 1)
            ELSE Fill(c, position + 1) IN
    Fill([index |-> [ck \in EngineKeyStrings |-> None],
          blobs |-> [p \in EngineFilePaths |-> None]], 1)

\* the engine is created on an empty cache directory or on a warm one
EngineCache(chain, cfg) ==
    \E warm \in BOOLEAN :
        LET c == WarmCache(chain, cfg) IN
        /\ index = IF warm THEN c.index ELSE [ck \in EngineKeyStrings |-> None]
        /\ blobs = IF warm THEN c.blobs ELSE [p \in EngineFilePaths |-> None]
        /\ clock = StartTime
        /\ ret = Returned("new", None, None, "", 0)
        /\ stored = [k \in CacheKeys |-> None]

\* initialize_analysis has stored the engine; the remote repository has some
\* history; nothing is cloned yet
InitRun ==
    /\ history \in Histories
    /\ config \in { Some(cfg) : cfg \in RunConfigs }
    /\ EngineCache(history, Unwrap(config))
    /\ cache_opened = TRUE
    /\ cached_before = None
    /\ NoSample
    /\ NoKey
    /\ NoRegistry
    /\ NoCommands
    /\ NoInFlight
    /\ merge_sequence = <<>>
    /\ head = 0
    /\ current_commit = None
    /\ detached_at = None
    /\ local_branch = 0
    /\ nav_ret = NoCall
    /\ walk = NoWalk
    /\ pc = "idle"
    /\ commits_to_analyze = <<>>
    /\ loop_index = 0
    /\ snapshots = <<>>
    /\ events = <<>>
    /\ run_result = None
    /\ attempts = <<>>

Cfg == Unwrap(config)

Publish(event) == events' = Append(events, event)

\* analyze_repository is entered: the Cloning event
StartAnalysis ==
    /\ pc = "idle"
    /\ Publish(CloningEvent)
    /\ pc' = "clone"
    /\ UNCHANGED <<cacheVars, sampleVars, keyVars, registryVars, commands, in_flight, navVars, engineVars, commits_to_analyze,
                   loop_index, snapshots, run_result, attempts>>

\* clone_and_setup returns an error (clone or fetch failure): the `?` of line
\* 136 returns it
CloneFails ==
    /\ pc = "clone"
    /\ run_result' = Some("err")
    /\ pc' = "done"
    /\ UNCHANGED <<cacheVars, sampleVars, keyVars, registryVars, commands, in_flight, navVars, engineVars, commits_to_analyze,
                   loop_index, snapshots, events, attempts>>

\* clone_and_setup succeeds: the working tree is at the branch tip, the
\* sequence is built (again with the filter when a subfolder is configured),
\* the BuildingCommitSequence event is published
CloneSucceeds ==
    /\ pc = "clone"
    /\ head' = Len(history)
    /\ current_commit' = None
    /\ detached_at' = None
    /\ local_branch' = Len(history)
    /\ merge_sequence' = build_merge_sequence_with_subfolder(history, Cfg.subfolder)
    /\ Publish(BuildingEvent(Len(merge_sequence')))
    /\ pc' = "validate"
    /\ UNCHANGED <<cacheVars, sampleVars, keyVars, registryVars, commands, in_flight, history, walk, nav_ret, engineVars, commits_to_analyze,
                   loop_index, snapshots, run_result, attempts>>

SubfolderValidAt_unchecked(tree, cfg) == TRUE

\* validate_subfolder_exists on a working tree
SubfolderValidAt(tree, cfg) ==
    IsSome(cfg.subfolder) => PathExists(tree, AnalysisPath(cfg))

SubfolderValid == SubfolderValidAt(history[head], Cfg)

\* validate_subfolder_exists bails: the `?` of line 153 returns the error
ValidationFails ==
    /\ pc = "validate"
    /\ ~SubfolderValid
    /\ run_result' = Some("err")
    /\ pc' = "done"
    /\ UNCHANGED <<cacheVars, sampleVars, keyVars, registryVars, commands, in_flight, navVars, engineVars, commits_to_analyze,
                   loop_index, snapshots, events, attempts>>

ValidationPasses ==
    /\ pc = "validate"
    /\ SubfolderValid
    /\ pc' = "sample"
    /\ UNCHANGED <<cacheVars, sampleVars, keyVars, registryVars, commands, in_flight, navVars, engineVars, commits_to_analyze,
                   loop_index, snapshots, events, run_result, attempts>>

Sampled == sample_commits(merge_sequence, Cfg.commit_sampling, Cfg.max_commits)

\* sample_commits panics (a division by zero): the worker dies
SamplingPanics ==
    /\ pc = "sample"
    /\ Sampled.panic
    /\ run_result' = Some("panic")
    /\ pc' = "done"
    /\ UNCHANGED <<cacheVars, sampleVars, keyVars, registryVars, commands, in_flight, navVars, engineVars, commits_to_analyze,
                   loop_index, snapshots, events, attempts>>

\* sample_commits returns: the AnalyzingCommits event at 15%
SamplingReturns ==
    /\ pc = "sample"
    /\ ~Sampled.panic
    /\ commits_to_analyze' = Sampled.commits
    /\ Publish(AnalyzingEvent(Len(Sampled.commits)))
    /\ loop_index' = 0
    /\ pc' = "loop"
    /\ UNCHANGED <<cacheVars, sampleVars, keyVars, registryVars, commands, in_flight, navVars, engineVars, snapshots,
                   run_result, attempts>>


\* ---- one iteration of the loop over commits_to_analyze ----

InLoop == pc = "loop" /\ loop_index < Len(commits_to_analyze)

analysis_count == Len(commits_to_analyze)

ThisCommit_newest_first == commits_to_analyze[Len(commits_to_analyze) - loop_index]

ThisCommit == commits_to_analyze[loop_index + 1]

ThisTree == history[PositionOf(ThisCommit.hash)]

ThisKey == CommitCacheKey(Cfg, ThisCommit.hash)

\* checkout_commit succeeded
CheckedOut ==
    /\ head' = PositionOf(ThisCommit.hash)
    /\ detached_at' = Some(ThisCommit.hash)
    /\ current_commit' = Some(ThisCommit.hash)

\* cache.get(&cache_key) inside analyze_commit, returning Ok
Lookup == CacheGet(CacheState, ThisKey, clock)

\* the ways cache.get(&cache_key) returns Err: a statement fails before
\* anything is written, or remove_entry fails on its DELETE after it removed
\* the corrupt file
FailedGets(c, key) ==
    LET cache_key == to_cache_key(key)
        file_path == get_cache_file_path(cache_key) IN
    {[index |-> c.index, blobs |-> c.blobs, res |-> None, outcome |-> "err"]}
    \cup
    IF /\ IsSome(c.index[cache_key])
       /\ IsSome(c.blobs[file_path])
       /\ ~IsSome(load_analysis_result(c, file_path))
    THEN {[index |-> c.index, blobs |-> [c.blobs EXCEPT ![file_path] = None],
           res |-> None, outcome |-> "err"]}
    ELSE {}

\* the lookups that give analyze_commit nothing to decide on: the engine has
\* no cache (lines 505 and 524 skip it), or get returned Err
LookupsWithoutAnswer ==
    IF cache_opened
    THEN FailedGets(CacheState, ThisKey)
    ELSE {[index |-> index, blobs |-> blobs, res |-> None, outcome |-> "no_cache"]}

PutOk_discards(c, key, result, now) ==
    [index |-> c.index, blobs |-> c.blobs, outcome |-> "ok"]

\* cache.put(&cache_key, &analysis_result) returning Ok
PutOk(c, key, result, now) ==
    LET d == CachePut(c, key, result, now) IN
    [index |-> d.index, blobs |-> d.blobs, outcome |-> "ok"]

\* the ways cache.put returns Err: the file is not written, or it is written
\* and the INSERT OR REPLACE fails
FailedPuts(c, key, result) ==
    {[index |-> c.index, blobs |-> c.blobs, outcome |-> "err"],
     [index |-> c.index,
      blobs |-> save_analysis_result(c, get_cache_file_path(to_cache_key(key)),
                                     result).blobs,
      outcome |-> "err"]}

\* the cache after `if let Some(ref mut cache) = self.cache { cache.put(..) }`
\* found no cache
NoPut(c) == [index |-> c.index, blobs |-> c.blobs, outcome |-> "no_cache"]

\* the Err arm of the match on analyze_commit's result (lines 188-222): an
\* infrastructure error publishes Failed and returns the error, any other
\* error is logged and the loop goes on
HandleError(outcome, lookup) ==
    /\ attempts' = Append(attempts, Attempt(ThisCommit.hash, outcome, lookup, "none"))
    /\ IF is_infrastructure_error(outcome)
       THEN /\ events' = events \o
                  << CommitEvent(loop_index, analysis_count, ThisCommit),
                     InfrastructureFailedEvent(loop_index, analysis_count, ThisCommit) >>
            /\ run_result' = Some("err")
            /\ pc' = "done"
            /\ UNCHANGED loop_index
       ELSE /\ Publish(CommitEvent(loop_index, analysis_count, ThisCommit))
            /\ loop_index' = loop_index + 1
            /\ UNCHANGED <<run_result, pc>>

\* checkout_commit fails, which analyze_commit reports as "Failed to checkout
\* commit": before HEAD is moved (find_commit, set_head_detached), or in
\* checkout_head, after set_head_detached moved HEAD, with the working tree
\* left as it was or already rewritten
CheckoutFails ==
    /\ InLoop
    /\ \/ UNCHANGED <<head, detached_at>>
       \/ /\ detached_at' = Some(ThisCommit.hash)
          /\ \E rewritten \in BOOLEAN :
                head' = IF rewritten THEN PositionOf(ThisCommit.hash) ELSE head
    /\ HandleError("checkout_failed", "none")
    /\ UNCHANGED <<cacheVars, sampleVars, keyVars, registryVars, commands, in_flight, history, walk, local_branch, nav_ret, merge_sequence,
                   current_commit, engineVars, commits_to_analyze, snapshots>>

\* analyze_commit bails before the cache lookup: the subfolder is absent at
\* the commit, or the project marker file is
SkipCommit ==
    /\ InLoop
    /\ PreAnalysis(Cfg, ThisTree) # "ready"
    /\ CheckedOut
    /\ HandleError(PreAnalysis(Cfg, ThisTree), "none")
    /\ UNCHANGED <<cacheVars, sampleVars, keyVars, registryVars, commands, in_flight, history, walk, local_branch, nav_ret, merge_sequence, engineVars,
                   commits_to_analyze, snapshots>>

\* the commit is checked out and can be analysed: analyze_commit reaches the
\* cache lookup
AtLookup ==
    /\ InLoop
    /\ PreAnalysis(Cfg, ThisTree) = "ready"

\* the cache holds the result: the snapshot is built from it
CacheHit ==
    /\ AtLookup
    /\ cache_opened
    /\ Lookup.outcome = "hit"
    /\ CheckedOut
    /\ Publish(CommitEvent(loop_index, analysis_count, ThisCommit))
    /\ index' = Lookup.index
    /\ blobs' = Lookup.blobs
    /\ ret' = Returned("get", Some(ThisKey), Lookup.res, Lookup.outcome, 0)
    /\ snapshots' = Append(snapshots,
          CommitSnapshot(ThisCommit, Unwrap(Lookup.res), AnalysisPath(Cfg)))
    /\ attempts' = Append(attempts,
          Attempt(ThisCommit.hash, "cache_hit", "hit", "none"))
    /\ loop_index' = loop_index + 1
    /\ UNCHANGED <<clock, stored, sampleVars, keyVars, registryVars, commands, in_flight, history, walk, local_branch, nav_ret, merge_sequence, engineVars,
                   pc, commits_to_analyze, run_result>>

\* after the lookup l gave no result, analyze_project fails ("Failed to run
\* dependency analysis")
AnalysisFailsAfter(l) ==
    /\ CheckedOut
    /\ index' = l.index
    /\ blobs' = l.blobs
    /\ ret' = Returned("get", Some(ThisKey), l.res, l.outcome, 0)
    /\ HandleError("analysis_failed", l.outcome)
    /\ UNCHANGED <<clock, stored, sampleVars, keyVars, registryVars, commands, in_flight, history, walk, local_branch, nav_ret, merge_sequence, engineVars,
                   commits_to_analyze, snapshots>>

AnalysisSucceedsAfter_put_error_returned(l, w) ==
    LET analysis_result == analyze_project(ThisTree, AnalysisPath(Cfg)) IN
    /\ CheckedOut
    /\ index' = w.index
    /\ blobs' = w.blobs
    /\ ret' = Returned("put", Some(ThisKey), None, w.outcome, 0)
    /\ IF w.outcome = "err"
       THEN /\ Publish(CommitEvent(loop_index, analysis_count, ThisCommit))
            /\ attempts' = Append(attempts,
                  Attempt(ThisCommit.hash, "put_failed", l.outcome, w.outcome))
            /\ loop_index' = loop_index + 1
            /\ UNCHANGED <<stored, snapshots, pc, run_result>>
       ELSE /\ Publish(CommitEvent(loop_index, analysis_count, ThisCommit))
            /\ stored' = [k \in CacheKeys |->
                            IF k = ThisKey /\ w.outcome = "ok"
                            THEN Some(analysis_result) ELSE stored[k]]
            /\ snapshots' = Append(snapshots,
                  CommitSnapshot(ThisCommit, analysis_result, AnalysisPath(Cfg)))
            /\ attempts' = Append(attempts,
                  Attempt(ThisCommit.hash, "analyzed", l.outcome, w.outcome))
            /\ loop_index' = loop_index + 1
            /\ UNCHANGED <<pc, run_result>>
    /\ UNCHANGED <<clock, sampleVars, keyVars, registryVars, commands, in_flight, history, walk, local_branch, nav_ret, merge_sequence, engineVars,
                   commits_to_analyze>>

\* after the lookup l gave no result, analyze_project succeeds; the cache
\* write leaves the cache as w; the snapshot is pushed
AnalysisSucceedsAfter(l, w) ==
    LET analysis_result == analyze_project(ThisTree, AnalysisPath(Cfg)) IN
    /\ CheckedOut
    /\ Publish(CommitEvent(loop_index, analysis_count, ThisCommit))
    /\ index' = w.index
    /\ blobs' = w.blobs
    /\ stored' = [k \in CacheKeys |->
                    IF k = ThisKey /\ w.outcome = "ok"
                    THEN Some(analysis_result) ELSE stored[k]]
    /\ snapshots' = Append(snapshots,
          CommitSnapshot(ThisCommit, analysis_result, AnalysisPath(Cfg)))
    /\ ret' = IF w.outcome = "no_cache"
              THEN Returned("get", Some(ThisKey), l.res, l.outcome, 0)
              ELSE Returned("put", Some(ThisKey), None,
                            IF w.outcome = "ok" THEN "inserted" ELSE "err", 0)
    /\ attempts' = Append(attempts,
          Attempt(ThisCommit.hash, "analyzed", l.outcome, w.outcome))
    /\ loop_index' = loop_index + 1
    /\ UNCHANGED <<clock, sampleVars, keyVars, registryVars, commands, in_flight, history, walk, local_branch, nav_ret, merge_sequence, engineVars, pc,
                   commits_to_analyze, run_result>>

\* cache miss and analyze_project fails
AnalyzerFails ==
    /\ AtLookup
    /\ cache_opened
    /\ Lookup.outcome # "hit"
    /\ AnalysisFailsAfter(Lookup)

\* cache miss and analyze_project succeeds: the result is cached, the
\* snapshot pushed
AnalyzerSucceeds ==
    /\ AtLookup
    /\ cache_opened
    /\ Lookup.outcome # "hit"
    /\ AnalysisSucceedsAfter(Lookup,
          PutOk(Lookup, ThisKey, analyze_project(ThisTree, AnalysisPath(Cfg)), clock))

\* cache miss, analyze_project succeeds and cache.put returns Err: the warning
\* of line 526, the snapshot is pushed all the same
PutFails ==
    /\ AtLookup
    /\ cache_opened
    /\ Lookup.outcome # "hit"
    /\ \E w \in FailedPuts(Lookup, ThisKey,
                           analyze_project(ThisTree, AnalysisPath(Cfg))) :
          AnalysisSucceedsAfter(Lookup, w)

\* no cache or cache.get returns Err, and analyze_project fails
UnansweredAnalyzerFails ==
    /\ AtLookup
    /\ \E l \in LookupsWithoutAnswer : AnalysisFailsAfter(l)

\* no cache or cache.get returns Err, and analyze_project succeeds; the cache
\* write is skipped (no cache), succeeds or fails
UnansweredAnalyzerSucceeds ==
    /\ AtLookup
    /\ \E l \in LookupsWithoutAnswer :
          LET analysis_result == analyze_project(ThisTree, AnalysisPath(Cfg)) IN
          \E w \in IF cache_opened
                   THEN {PutOk(l, ThisKey, analysis_result, clock)}
                           \cup FailedPuts(l, ThisKey, analysis_result)
                   ELSE {NoPut(l)} :
             AnalysisSucceedsAfter(l, w)

\* ---- after the loop ----

\* snapshots.is_empty(): the Failed event at 100%, the error is returned
FinishFailed ==
    /\ pc = "loop"
    /\ loop_index = analysis_count
    /\ snapshots = <<>>
    /\ Publish(NoSnapshotsEvent(analysis_count))
    /\ run_result' = Some("err")
    /\ pc' = "done"
    /\ UNCHANGED <<cacheVars, sampleVars, keyVars, registryVars, commands, in_flight, navVars, engineVars, commits_to_analyze,
                   loop_index, snapshots, attempts>>

\* the Completed event, Ok(snapshots)
FinishCompleted ==
    /\ pc = "loop"
    /\ loop_index = analysis_count
    /\ snapshots # <<>>
    /\ Publish(CompletedEvent(Len(snapshots), analysis_count))
    /\ run_result' = Some("ok")
    /\ pc' = "done"
    /\ UNCHANGED <<cacheVars, sampleVars, keyVars, registryVars, commands, in_flight, navVars, engineVars, commits_to_analyze,
                   loop_index, snapshots, attempts>>

Next ==
    \/ StartAnalysis
    \/ CloneFails
    \/ CloneSucceeds
    \/ ValidationFails
    \/ ValidationPasses
    \/ SamplingPanics
    \/ SamplingReturns
    \/ CheckoutFails
    \/ SkipCommit
    \/ CacheHit
    \/ AnalyzerFails
    \/ AnalyzerSucceeds
    \/ FinishFailed
    \/ FinishCompleted

Spec == InitRun /\ [][Next]_vars

-----------------------------------------------------------------------------
(* SpecLoop: the loop of analyze_repository on any sequence of the chain *)

\* the run stands before sample_commits: cloned, validated, the two events
\* published; get_merge_sequence() handed over the last j commits of the chain
InitLoop ==
    /\ history \in Histories
    /\ config \in { Some(cfg) : cfg \in RunConfigs }
    /\ SubfolderValidAt(history[Len(history)], Unwrap(config))
    /\ EngineCache(history, Unwrap(config))
    /\ cache_opened = TRUE
    /\ cached_before = None
    /\ NoSample
    /\ NoKey
    /\ NoRegistry
    /\ NoCommands
    /\ NoInFlight
    /\ \E j \in 0..Len(history) : merge_sequence = LastCommits(history, j)
    /\ head = Len(history)
    /\ current_commit = None
    /\ detached_at = None
    /\ local_branch = Len(history)
    /\ nav_ret = NoCall
    /\ walk = NoWalk
    /\ pc = "sample"
    /\ commits_to_analyze = <<>>
    /\ loop_index = 0
    /\ snapshots = <<>>
    /\ events = <<CloningEvent, BuildingEvent(Len(merge_sequence))>>
    /\ run_result = None
    /\ attempts = <<>>

NextLoop ==
    \/ SamplingPanics
    \/ SamplingReturns
    \/ CheckoutFails
    \/ SkipCommit
    \/ CacheHit
    \/ AnalyzerFails
    \/ AnalyzerSucceeds
    \/ FinishFailed
    \/ FinishCompleted

SpecLoop == InitLoop /\ [][NextLoop]_vars


-----------------------------------------------------------------------------
(* SpecReuse: two runs over the whole chain on one cache directory, the    *)
(* cache absent, empty, warm or corrupted, its reads and writes failing    *)
(* or not                                                                  *)

\* the warm cache directory with every blob file overwritten by bytes that
\* do not deserialize
CorruptedCache(chain, cfg, data) ==
    LET c == WarmCache(chain, cfg) IN
    [index |-> c.index,
     blobs |-> [p \in DOMAIN c.blobs |->
                  IF IsSome(c.blobs[p]) THEN Some(data) ELSE None]]

CacheDirectories(chain, cfg) ==
    { [index |-> [ck \in EngineKeyStrings |-> None],
       blobs |-> [p \in EngineFilePaths |-> None]],
      WarmCache(chain, cfg) }
    \cup { CorruptedCache(chain, cfg, data) : data \in CorruptedData }

\* the trees of the repository analysed twice: no project, a project at the
\* root, a project in the subfolder
ReuseTrees ==
    { { <<"r">> },
      { <<"r">>, <<"p">> },
      { <<"r">>, <<"a", "/", "p">>, <<"a", "/", "x">> } }

ReuseHistories == UNION { [1..n -> ReuseTrees] : n \in 1..MaxReuse }

\* the run stands before sample_commits, as in InitLoop, with the whole chain
\* as its sequence and every commit sampled
InitReuse ==
    /\ history \in ReuseHistories
    /\ config \in { Some(cfg) : cfg \in { c \in RunConfigs :
                        c.commit_sampling = 1 /\ c.max_commits = None } }
    /\ SubfolderValidAt(history[Len(history)], Unwrap(config))
    /\ \E c \in CacheDirectories(history, Unwrap(config)) :
          index = c.index /\ blobs = c.blobs
    /\ clock = StartTime
    /\ ret = Returned("new", None, None, "", 0)
    /\ stored = [k \in CacheKeys |-> None]
    /\ cache_opened \in BOOLEAN
    /\ cached_before = None
    /\ NoSample
    /\ NoKey
    /\ NoRegistry
    /\ NoCommands
    /\ NoInFlight
    /\ merge_sequence = FullChain(history)
    /\ head = Len(history)
    /\ current_commit = None
    /\ detached_at = None
    /\ local_branch = Len(history)
    /\ nav_ret = NoCall
    /\ walk = NoWalk
    /\ pc = "sample"
    /\ commits_to_analyze = <<>>
    /\ loop_index = 0
    /\ snapshots = <<>>
    /\ events = <<CloningEvent, BuildingEvent(Len(merge_sequence))>>
    /\ run_result = None
    /\ attempts = <<>>

\* the commits of this run's snapshots whose key the cache directory answers
\* with a result
CachedNow ==
    { h \in { snapshots[j].commit_info.hash : j \in 1..Len(snapshots) } :
        CacheGet(CacheState, CommitCacheKey(Cfg, h), clock).outcome = "hit" }

\* The run has returned; initialize_analysis builds a new engine with the
\* same configuration (its cache opens or not) and start_analysis runs it on
\* the same repository: it stands before sample_commits again.
RunAgain ==
    /\ pc = "done"
    /\ cached_before = None
    /\ cached_before' = Some(CachedNow)
    /\ cache_opened' \in BOOLEAN
    /\ head' = Len(history)
    /\ current_commit' = None
    /\ detached_at' = IF IsSome(detached_at) THEN Some(HashOf(Len(history))) ELSE None
    /\ pc' = "sample"
    /\ commits_to_analyze' = <<>>
    /\ loop_index' = 0
    /\ snapshots' = <<>>
    /\ events' = <<CloningEvent, BuildingEvent(Len(merge_sequence))>>
    /\ run_result' = None
    /\ attempts' = <<>>
    /\ UNCHANGED <<cacheVars, sampleVars, keyVars, registryVars, commands, in_flight, history, walk, local_branch, nav_ret, merge_sequence, config>>

NextReuse ==
    \/ SamplingReturns
    \/ CheckoutFails
    \/ SkipCommit
    \/ CacheHit
    \/ AnalyzerFails
    \/ AnalyzerSucceeds
    \/ PutFails
    \/ UnansweredAnalyzerFails
    \/ UnansweredAnalyzerSucceeds
    \/ FinishFailed
    \/ FinishCompleted
    \/ RunAgain

SpecReuse == InitReuse /\ [][NextReuse]_vars


-----------------------------------------------------------------------------
(* SpecNav: one navigator on a cloned repository, its calls in any order *)

\* the sibling directory of the subfolder, and the subfolder's name as a file
Sibling == <<"a", "b">>

NavTrees ==
    { { <<"r">> },                                          \* neither
      { <<"r">>, <<"a", "/", "x">> },                       \* the subfolder
      { <<"r">>, <<"a", "b", "/", "x">> },                  \* the sibling alone
      { <<"r">>, <<"a", "/", "x">>, <<"a", "b", "/", "x">> },   \* both
      { <<"r">>, <<"a">> } }                                \* a file of that name

NavHistories == UNION { [1..n -> NavTrees] : n \in 1..MaxNav }

\* the filters build_merge_sequence_with_subfolder is called with
NavSubfolders == { None, Some(Subfolder), Some(Sibling) }

\* the hashes checkout_commit is called with: the commits of the chain and
\* one hash that names no commit of the repository
NavHashes == { HashOf(i) : i \in 1..(Len(history) + 1) }

Resolvable(hash) == PositionOf(hash) \in 1..Len(history)

\* no engine, no run
NoEngine ==
    /\ config = None
    /\ cache_opened = FALSE
    /\ cached_before = None
    /\ pc = "idle"
    /\ commits_to_analyze = <<>>
    /\ loop_index = 0
    /\ snapshots = <<>>
    /\ events = <<>>
    /\ run_result = None
    /\ attempts = <<>>

\* GitTemporalNavigator::new has opened the clone: the working tree at the
\* tip of the branch, no sequence built, no commit tracked
InitNav ==
    /\ history \in NavHistories
    /\ merge_sequence = <<>>
    /\ head = Len(history)
    /\ current_commit = None
    /\ detached_at = None
    /\ local_branch = Len(history)
    /\ nav_ret = NoCall
    /\ walk = NoWalk
    /\ NoEngine
    /\ NoSample
    /\ NoKey
    /\ NoRegistry
    /\ NoCommands
    /\ NoInFlight
    /\ EmptyCache

\* the chain below the local branch ref: what a walk from
\* refs/heads/<default_branch> sees
LocalChain == SubSeq(history, 1, local_branch)

NavCall(op, subfolder, hash, outcome) ==
    NavReturned(op, subfolder, hash, outcome, merge_sequence, current_commit,
                detached_at)

BuildSequence_appending(subfolder) ==
    /\ merge_sequence' =
          merge_sequence \o build_merge_sequence_with_subfolder(LocalChain, subfolder)
    /\ nav_ret' = NavCall("build", subfolder, 0, "ok")
    /\ UNCHANGED <<history, walk, local_branch, head, current_commit, detached_at>>
    /\ UNCHANGED <<cacheVars, sampleVars, keyVars, registryVars, commands, in_flight, runVars>>

\* build_merge_sequence_with_subfolder returns Ok(())
BuildSequence(subfolder) ==
    /\ merge_sequence' = build_merge_sequence_with_subfolder(LocalChain, subfolder)
    /\ nav_ret' = NavCall("build", subfolder, 0, "ok")
    /\ UNCHANGED <<history, walk, local_branch, head, current_commit, detached_at>>
    /\ UNCHANGED <<cacheVars, sampleVars, keyVars, registryVars, commands, in_flight, runVars>>

\* build_merge_sequence_with_subfolder returns an error before the walk
\* ("Failed to find main branch", "Failed to find head commit")
BuildFails(subfolder) ==
    /\ nav_ret' = NavCall("build", subfolder, 0, "err")
    /\ UNCHANGED <<history, walk, local_branch, merge_sequence, head, current_commit, detached_at>>
    /\ UNCHANGED <<cacheVars, sampleVars, keyVars, registryVars, commands, in_flight, runVars>>

\* checkout_commit returns Ok(())
CheckoutCommit(hash) ==
    /\ Resolvable(hash)
    /\ head' = PositionOf(hash)
    /\ detached_at' = Some(hash)
    /\ current_commit' = Some(hash)
    /\ nav_ret' = NavCall("checkout", None, hash, "ok")
    /\ UNCHANGED <<history, walk, local_branch, merge_sequence>>
    /\ UNCHANGED <<cacheVars, sampleVars, keyVars, registryVars, commands, in_flight, runVars>>

\* checkout_commit returns an error before HEAD is moved: the hash names no
\* commit ("Invalid commit hash", "Commit not found"), or set_head_detached
\* fails ("Failed to detach HEAD")
CheckoutRejected(hash) ==
    /\ nav_ret' = NavCall("checkout", None, hash, "err")
    /\ UNCHANGED <<history, walk, local_branch, merge_sequence, head, current_commit, detached_at>>
    /\ UNCHANGED <<cacheVars, sampleVars, keyVars, registryVars, commands, in_flight, runVars>>

\* checkout_commit returns "Failed to checkout commit": set_head_detached has
\* moved HEAD, checkout_head fails with the working tree left as it was or
\* already rewritten, and current_commit is not assigned
CheckoutInterrupted(hash) ==
    /\ Resolvable(hash)
    /\ detached_at' = Some(hash)
    /\ \E rewritten \in BOOLEAN :
          head' = IF rewritten THEN PositionOf(hash) ELSE head
    /\ nav_ret' = NavCall("checkout", None, hash, "err")
    /\ UNCHANGED <<history, walk, local_branch, merge_sequence, current_commit>>
    /\ UNCHANGED <<cacheVars, sampleVars, keyVars, registryVars, commands, in_flight, runVars>>

NextNav ==
    \/ \E subfolder \in NavSubfolders : BuildSequence(subfolder)
    \/ \E subfolder \in NavSubfolders : BuildFails(subfolder)
    \/ \E hash \in NavHashes : CheckoutCommit(hash)
    \/ \E hash \in NavHashes : CheckoutRejected(hash)
    \/ \E hash \in NavHashes : CheckoutInterrupted(hash)

SpecNav == InitNav /\ [][NextNav]_vars


-----------------------------------------------------------------------------
(* SpecMirror: the local mirror of a repository, reopened after the remote
   branch has advanced *)

\* a commit is pushed to the remote default branch
RemoteAdvances ==
    /\ Len(history) < MaxNav
    /\ \E tree \in NavTrees : history' = Append(history, tree)
    /\ UNCHANGED <<merge_sequence, head, current_commit, detached_at,
                   local_branch, walk, nav_ret>>
    /\ UNCHANGED <<cacheVars, sampleVars, keyVars, registryVars, commands, in_flight, runVars>>

\* clone_repository finds the mirror and opens it: update_repository fetches
\* and resets hard to refs/remotes/origin/main, which moves the branch ref
\* HEAD points to, or HEAD itself when it is detached; default_branch is the
\* shorthand of HEAD ("HEAD" when detached, and then the walk falls back to
\* refs/heads/main); the new navigator builds its sequence
Reopen ==
    /\ head' = Len(history)
    /\ detached_at' = IF IsSome(detached_at) THEN Some(HashOf(Len(history)))
                                             ELSE None
    /\ local_branch' = IF IsSome(detached_at) THEN local_branch ELSE Len(history)
    /\ current_commit' = None
    /\ merge_sequence' =
          build_merge_sequence_with_subfolder(SubSeq(history, 1, local_branch'), None)
    /\ nav_ret' = NavCall("open", None, 0, "ok")
    /\ UNCHANGED <<history, walk>>
    /\ UNCHANGED <<cacheVars, sampleVars, keyVars, registryVars, commands, in_flight, runVars>>

\* clone_repository returns the error of update_repository ("Failed to fetch
\* from origin")
ReopenFails ==
    /\ nav_ret' = NavCall("open", None, 0, "err")
    /\ UNCHANGED <<history, walk, merge_sequence, head, current_commit, detached_at,
                   local_branch>>
    /\ UNCHANGED <<cacheVars, sampleVars, keyVars, registryVars, commands, in_flight, runVars>>

\* the commits a run checks out are those of the local clone
CheckoutFetched(hash) ==
    /\ PositionOf(hash) <= head \/ PositionOf(hash) <= local_branch
    /\ CheckoutCommit(hash)

NextMirror ==
    \/ \E hash \in NavHashes : CheckoutFetched(hash)
    \/ RemoteAdvances
    \/ Reopen
    \/ ReopenFails

SpecMirror == InitNav /\ [][NextMirror]_vars


-----------------------------------------------------------------------------
(* SpecWalk: the loop of build_merge_sequence_with_subfolder, one iteration
   at a time *)

\* a chain longer than the cap on inspected commits, every commit with the
\* same tree
LongChain(tree) == [i \in 1..(WalkCap + 2) |-> tree]

WalkHistories == NavHistories \cup { LongChain(tree) : tree \in NavTrees }

InitWalk ==
    /\ history \in WalkHistories
    /\ merge_sequence = <<>>
    /\ head = Len(history)
    /\ current_commit = None
    /\ detached_at = None
    /\ local_branch = Len(history)
    /\ nav_ret = NoCall
    /\ walk = NoWalk
    /\ NoEngine
    /\ NoSample
    /\ NoKey
    /\ NoRegistry
    /\ NoCommands
    /\ NoInFlight
    /\ EmptyCache

\* the call finds the branch ref and its commit and enters the loop
WalkStart(subfolder) ==
    /\ walk.status = "idle"
    /\ walk' = Walk("walking", subfolder, local_branch, 0, <<>>, {}, "none")
    /\ UNCHANGED <<history, merge_sequence, head, current_commit, detached_at,
                   local_branch, nav_ret>>
    /\ UNCHANGED <<cacheVars, sampleVars, keyVars, registryVars, commands, in_flight, runVars>>

\* the loop has left by a break: sequence.reverse(), the assignment, Ok(())
WalkReturns(w) ==
    /\ walk' = w
    /\ merge_sequence' = Reverse(w.sequence)
    /\ nav_ret' = NavCall("build", w.subfolder, 0, "ok")

WalkContinues(w) ==
    /\ walk' = w
    /\ UNCHANGED <<merge_sequence, nav_ret>>

\* one iteration of the loop.  no_answer: commit_touches_subfolder returned
\* Err, or its diff.foreach ended with a real error or at the limit of files
\* checked without a match; the commit is then not included.
WalkIteration(no_answer) ==
    /\ walk.status = "walking"
    /\ IF walk.position \in walk.visited
       THEN WalkReturns([walk EXCEPT !.status = "stopped", !.reason = "visited"])
       ELSE LET total == walk.total_commits + 1
                should_include ==
                    IF IsSome(walk.subfolder)
                    THEN /\ ~no_answer
                         /\ commit_touches_subfolder(history, walk.position,
                                                     Unwrap(walk.subfolder))
                    ELSE TRUE
                pushed == IF should_include
                          THEN Append(walk.sequence, extract_commit_info(walk.position))
                          ELSE walk.sequence
                seen == [walk EXCEPT !.visited = walk.visited \cup {walk.position},
                                     !.total_commits = total,
                                     !.sequence = pushed] IN
            IF should_include /\ Len(pushed) >= MatchLimit
            THEN WalkReturns([seen EXCEPT !.status = "stopped", !.reason = "match_limit"])
            ELSE IF total > WalkCap
            THEN WalkReturns([seen EXCEPT !.status = "stopped", !.reason = "cap"])
            ELSE IF walk.position = 1
            THEN WalkReturns([seen EXCEPT !.status = "stopped", !.reason = "root"])
            ELSE WalkContinues([seen EXCEPT !.position = walk.position - 1])
    /\ UNCHANGED <<history, head, current_commit, detached_at, local_branch>>
    /\ UNCHANGED <<cacheVars, sampleVars, keyVars, registryVars, commands, in_flight, runVars>>

NextWalk ==
    \/ \E subfolder \in NavSubfolders : WalkStart(subfolder)
    \/ \E no_answer \in BOOLEAN : WalkIteration(no_answer)

SpecWalk == InitWalk /\ [][NextWalk]_vars

\* the loop runs whenever it can
SpecWalkFair == SpecWalk /\ WF_vars(NextWalk)

\* every call leaves the loop
WalkTerminates == <>(walk.status = "stopped")


-----------------------------------------------------------------------------
(* SpecRegistry: one AnalyzerRegistry, its methods in any order *)

InitRegistry ==
    /\ NoRegistry
    /\ NoCommands
    /\ NoInFlight
    /\ NoKey
    /\ NoSample
    /\ EmptyCache
    /\ NoRun

\* a call that reads the registry
RegRead(op, name, found, listing) ==
    /\ reg_ret' = RegReturned(op, name, "ok", found, listing,
                              registry.default_analyzer, reg_ret.first,
                              reg_ret.last_set)
    /\ UNCHANGED registry

Register(name, version) ==
    /\ registry' = register(registry, name, version)
    /\ reg_ret' = RegReturned("register", name, "ok", None, {},
                              registry.default_analyzer,
                              IF reg_ret.first = None THEN Some(name)
                                                      ELSE reg_ret.first,
                              reg_ret.last_set)
    /\ UNCHANGED <<cacheVars, sampleVars, keyVars, commands, in_flight, navVars, runVars>>

GetAnalyzer(name) ==
    /\ RegRead("get_analyzer", name, get_analyzer(registry, name), {})
    /\ UNCHANGED <<cacheVars, sampleVars, keyVars, commands, in_flight, navVars, runVars>>

GetDefaultAnalyzer ==
    /\ RegRead("get_default_analyzer", "", get_default_analyzer(registry), {})
    /\ UNCHANGED <<cacheVars, sampleVars, keyVars, commands, in_flight, navVars, runVars>>

ListAnalyzers ==
    /\ RegRead("list_analyzers", "", None, list_analyzers(registry))
    /\ UNCHANGED <<cacheVars, sampleVars, keyVars, commands, in_flight, navVars, runVars>>

SetDefaultAnalyzer(name) ==
    LET call == set_default_analyzer(registry, name) IN
    /\ registry' = call.registry
    /\ reg_ret' = RegReturned("set_default_analyzer", name, call.outcome, None,
                              {}, registry.default_analyzer, reg_ret.first,
                              IF call.outcome = "ok" THEN Some(name)
                                                     ELSE reg_ret.last_set)
    /\ UNCHANGED <<cacheVars, sampleVars, keyVars, commands, in_flight, navVars, runVars>>

NextRegistry ==
    \/ \E name \in RegistryNames, version \in RegistryVersions :
          Register(name, version)
    \/ \E name \in RegistryNames : GetAnalyzer(name)
    \/ GetDefaultAnalyzer
    \/ ListAnalyzers
    \/ \E name \in RegistryNames : SetDefaultAnalyzer(name)

SpecRegistry == InitRegistry /\ [][NextRegistry]_vars


-----------------------------------------------------------------------------
(* SpecCommands: initialize_analysis, start_analysis, cleanup_analysis and
   get_analysis_snapshots issued in any order, runs in worker tasks *)

InitCommands ==
    /\ NoCommands
    /\ NoInFlight
    /\ NoRegistry
    /\ NoKey
    /\ NoSample
    /\ EmptyCache
    /\ NoRun

OtherThanCommands == <<cacheVars, sampleVars, keyVars, registry, reg_ret, in_flight, navVars, runVars>>

\* initialize_analysis: a new engine for the url replaces whatever the slot
\* holds
InitializeAnalysis(github_url) ==
    /\ commands.made < MaxEngines
    /\ LET engine == commands.made + 1 IN
       commands' = [commands EXCEPT
                       !.slot = Some(engine),
                       !.made = engine,
                       !.urls[engine] = github_url,
                       !.installed = Some(engine),
                       !.ret = CommandReturned("initialize_analysis", engine, "ok")]
    /\ UNCHANGED OtherThanCommands

\* initialize_analysis returns "Lakos analyzer is not installed" before an
\* engine is made
InitializeRejected ==
    /\ commands' = [commands EXCEPT
                       !.ret = CommandReturned("initialize_analysis", 0, "err")]
    /\ UNCHANGED OtherThanCommands

\* start_analysis up to spawn_blocking: state_guard.take(), the guard is
\* dropped, the worker task owns the engine
StartTakesEngine ==
    /\ IsSome(commands.slot)
    /\ LET engine == Unwrap(commands.slot) IN
       commands' = [commands EXCEPT !.slot = None, !.runs[engine] = "running"]
    /\ UNCHANGED OtherThanCommands

\* start_analysis on an empty slot: "No analysis initialized"
StartRefused ==
    /\ commands.slot = None
    /\ commands' = [commands EXCEPT
                       !.ret = CommandReturned("start_analysis", 0, "no_analysis")]
    /\ UNCHANGED OtherThanCommands

\* the worker task returns (engine, Ok(snapshots)) or (engine, Err(e)):
\* start_analysis stores the engine back and returns
RunReturns(engine, outcome) ==
    /\ commands.runs[engine] = "running"
    /\ commands' = [commands EXCEPT
                       !.slot = Some(engine),
                       !.runs[engine] = "idle",
                       !.ret = CommandReturned("start_analysis", engine, outcome)]
    /\ UNCHANGED OtherThanCommands

\* the worker task panics: the JoinError is returned by the `?` after the
\* await, the engine went down with the task
RunAborts(engine) ==
    /\ commands.runs[engine] = "running"
    /\ commands' = [commands EXCEPT
                       !.runs[engine] = "idle",
                       !.ret = CommandReturned("start_analysis", engine, "aborted")]
    /\ UNCHANGED OtherThanCommands

\* cleanup_analysis: state_guard.take(), engine.cleanup()
CleanupAnalysis ==
    /\ commands' = [commands EXCEPT
                       !.slot = None,
                       !.installed = None,
                       !.ret = CommandReturned("cleanup_analysis",
                                   IF IsSome(commands.slot) THEN Unwrap(commands.slot) ELSE 0,
                                   "ok")]
    /\ UNCHANGED OtherThanCommands

\* get_analysis_snapshots: the engine's snapshots or "No analysis available"
GetAnalysisSnapshots ==
    /\ commands' = [commands EXCEPT
                       !.ret = IF IsSome(commands.slot)
                               THEN CommandReturned("get_analysis_snapshots",
                                                    Unwrap(commands.slot), "ok")
                               ELSE CommandReturned("get_analysis_snapshots", 0,
                                                    "no_analysis")]
    /\ UNCHANGED OtherThanCommands

NextCommands ==
    \/ \E github_url \in Repos : InitializeAnalysis(github_url)
    \/ InitializeRejected
    \/ StartTakesEngine
    \/ StartRefused
    \/ \E engine \in 1..MaxEngines, outcome \in {"ok", "err"} : RunReturns(engine, outcome)
    \/ \E engine \in 1..MaxEngines : RunAborts(engine)
    \/ CleanupAnalysis
    \/ GetAnalysisSnapshots

SpecCommands == InitCommands /\ [][NextCommands]_vars

-----------------------------------------------------------------------------
(* Claims about the cache (SpecCache) *)

SameSummary(r1, r2) ==
    /\ r1.dependencies = r2.dependencies
    /\ r1.analyzer_name = r2.analyzer_name
    /\ r1.analyzed_files = r2.analyzed_files

\* C1: a get of a key whose last put has not been evicted since (whatever was
\* done to other keys in between) returns a result with the dependency count,
\* analyzer name and file count of the result that was put.
C1_PutGetRoundTrip ==
    (ret.op = "get" /\ IsSome(stored[Unwrap(ret.key)])) =>
        /\ IsSome(ret.res)
        /\ SameSummary(Unwrap(ret.res), Unwrap(stored[Unwrap(ret.key)]))

\* C1 witness: a get has just answered for a stored key while another key
\* holds a different stored result.
C1_Witness ==
    /\ ret.op = "get"
    /\ IsSome(ret.res)
    /\ IsSome(stored[Unwrap(ret.key)])
    /\ \E k2 \in CacheKeys : /\ k2 # Unwrap(ret.key)
                             /\ IsSome(stored[k2])
                             /\ stored[k2] # stored[Unwrap(ret.key)]

HasCorruptBlob(key) ==
    LET ck == to_cache_key(key)
        fp == get_cache_file_path(ck) IN
    /\ IsSome(index[ck])
    /\ IsSome(blobs[fp])
    /\ ~IsSome(Deserialize(Unwrap(blobs[fp])))

\* C2: a get of a key that has an index row and a blob that does not
\* deserialize returns none, and afterwards the key has no row and no blob
\* file, while the rows of all other keys are as before.
C2_CorruptionRecovery ==
    [][\A key \in CacheKeys :
         (HasCorruptBlob(key) /\ ret'.op = "get" /\ ret'.key = Some(key)) =>
            /\ ret'.res = None
            /\ ~IsSome(index'[to_cache_key(key)])
            /\ ~IsSome(blobs'[get_cache_file_path(to_cache_key(key))])
            /\ \A ck \in CacheKeyStrings \ {to_cache_key(key)} :
                  index'[ck] = index[ck]]_vars

\* C2 witness: a get has just taken the corrupted-file branch while another
\* key has a row.
C2_Witness ==
    /\ ret.op = "get"
    /\ ret.outcome = "corrupt"
    /\ ~IsSome(index[to_cache_key(Unwrap(ret.key))])
    /\ \E ck \in CacheKeyStrings : IsSome(index[ck])

\* the keys that have a row of a repository
RowsOf(repo_url) ==
    { ck \in CacheKeyStrings : IsSome(index[ck]) /\ index[ck][1].repo_url = repo_url }

\* what a get of the key would answer in a cache state: the result and the
\* branch taken
Answer(c, key, now) ==
    LET d == CacheGet(c, key, now) IN <<d.res, d.outcome>>

\* C14: remove_repository(r) removes exactly the rows of repository r and
\* their blob files, returns one deleted path per entry of r (a row with its
\* blob file), and a get of any key of another repository answers as it would
\* have before.
C14_RemoveRepositoryExact ==
    [][ret'.op = "remove_repository" =>
         LET r == ret'.outcome IN
         /\ \A ck \in CacheKeyStrings :
               /\ index'[ck] = IF ck \in RowsOf(r) THEN None ELSE index[ck]
               /\ blobs'[get_cache_file_path(ck)] =
                     IF ck \in RowsOf(r) THEN None
                     ELSE blobs[get_cache_file_path(ck)]
         /\ ret'.count = Cardinality({ ck \in RowsOf(r) :
                                         IsSome(blobs[get_cache_file_path(ck)]) })
         /\ \A key \in CacheKeys :
               key.repo_url # r =>
                  Answer([index |-> index', blobs |-> blobs'], key, clock')
                     = Answer(CacheState, key, clock)]_vars

\* remove_repository has just removed two entries while another repository
\* keeps one that a get hits
C14_Witness ==
    /\ ret.op = "remove_repository"
    /\ ret.count = 2
    /\ RowsOf(ret.outcome) = {}
    /\ \E key \in CacheKeys :
          /\ key.repo_url # ret.outcome
          /\ CacheGet(CacheState, key, clock).outcome = "hit"

\* the keys whose row was last accessed before now minus max_age_days days
OlderThan(max_age_days) ==
    { ck \in CacheKeyStrings :
        /\ IsSome(index[ck])
        /\ index[ck][1].last_accessed < clock - max_age_days * SecondsPerDay }

\* what C15 says of a cleanup_old_entries(max_age_days) step
CleanupExact(max_age_days) ==
    /\ ret'.outcome = "ok"
    /\ ret'.count = Cardinality(OlderThan(max_age_days))
    /\ \A ck \in CacheKeyStrings :
          index'[ck] = IF ck \in OlderThan(max_age_days) THEN None ELSE index[ck]
    /\ \A key \in CacheKeys :
          IF to_cache_key(key) \in OlderThan(max_age_days)
          THEN CacheGet([index |-> index', blobs |-> blobs'], key, clock').res = None
          ELSE Answer([index |-> index', blobs |-> blobs'], key, clock')
                  = Answer(CacheState, key, clock)

\* C15: cleanup_old_entries(maxAgeDays) removes exactly the entries last
\* accessed before now minus maxAgeDays days, returns their number, makes
\* them unretrievable and leaves every other entry retrievable.
C15_CleanupOldEntriesExact ==
    [][\A max_age_days \in MaxAgeDays :
         CleanupOldEntries(max_age_days) => CleanupExact(max_age_days)]_vars

\* a row without its two timestamps
Untimed(row) ==
    [f \in (DOMAIN row) \ {"created_at", "last_accessed"} |-> row[f]]

\* C16: a put of a key with the result an earlier put stored under it (and
\* nothing evicted or tampered with since) leaves the observable state as it
\* was: the same row but for its timestamps, the same number of rows, the same
\* blob files, and a get that returns that result.
C16_PutIdempotent ==
    [][\A key \in CacheKeys :
         (/\ ret'.op = "put"
          /\ ret'.key = Some(key)
          /\ IsSome(stored[key])
          /\ stored'[key] = stored[key]) =>
            LET ck == to_cache_key(key)
                result == Unwrap(stored[key])
                post == [index |-> index', blobs |-> blobs'] IN
            /\ IsSome(index'[ck])
            /\ Untimed(Unwrap(index'[ck])) = Untimed(Unwrap(index[ck]))
            /\ \A other \in CacheKeyStrings \ {ck} : index'[other] = index[other]
            /\ CacheTotalEntries(post) = CacheTotalEntries(CacheState)
            /\ blobs' = blobs
            /\ Answer(post, key, clock') = <<Some(result), "hit">>
            /\ Answer(CacheState, key, clock) = <<Some(result), "hit">>]_vars

\* a put has just rewritten, a day after the first put, the entry it found
C16_Witness ==
    /\ ret.op = "put"
    /\ ret.outcome = "same"
    /\ IsSome(stored[Unwrap(ret.key)])
    /\ Unwrap(index[to_cache_key(Unwrap(ret.key))]).created_at > StartTime
    /\ CacheTotalEntries(CacheState) >= 2


\* C17: a get that returns a result changes only last_accessed of the row it
\* read, which becomes the current time; a get for a key without a row returns
\* none and changes no row; in both cases every other row and every blob stay
\* as they were.
C17_GetFrame ==
    [][\A key \in CacheKeys :
         (ret'.op = "get" /\ ret'.key = Some(key)) =>
            LET ck == to_cache_key(key)
                hit == IsSome(ret'.res)
                miss == ~IsSome(index[ck]) IN
            /\ hit =>
                 /\ IsSome(index[ck])
                 /\ index'[ck] =
                      Some([Unwrap(index[ck]) EXCEPT !.last_accessed = clock'])
            /\ miss => (ret'.res = None /\ index'[ck] = None)
            /\ (hit \/ miss) =>
                 /\ \A other \in CacheKeyStrings \ {ck} : index'[other] = index[other]
                 /\ blobs' = blobs]_vars

\* a get has just hit, a day after the put, while another key has a row
C17_Witness ==
    /\ ret.op = "get"
    /\ IsSome(ret.res)
    /\ LET row == Unwrap(index[to_cache_key(Unwrap(ret.key))]) IN
         row.last_accessed = clock /\ row.created_at < clock
    /\ CacheTotalEntries(CacheState) >= 2


\* C18: when a key has a row but no blob file, get returns none and deletes
\* the row, so that the next get of the key finds no row (a plain miss that
\* changes nothing).
C18_MissingBlobRecovery ==
    [][\A key \in CacheKeys :
         LET ck == to_cache_key(key)
             post == [index |-> index', blobs |-> blobs']
             again == CacheGet(post, key, clock') IN
         (/\ ret'.op = "get"
          /\ ret'.key = Some(key)
          /\ IsSome(index[ck])
          /\ ~IsSome(blobs[get_cache_file_path(ck)])) =>
            /\ ret'.res = None
            /\ index'[ck] = None
            /\ again.res = None
            /\ again.outcome = "miss"
            /\ again.index = index'
            /\ again.blobs = blobs']_vars

\* a get has just found the row of a key whose blob file had been deleted,
\* while another key still has its row and blob
C18_Witness ==
    /\ ret.op = "get"
    /\ ret.outcome = "missing"
    /\ index[to_cache_key(Unwrap(ret.key))] = None
    /\ \E ck \in CacheKeyStrings :
          IsSome(index[ck]) /\ IsSome(blobs[get_cache_file_path(ck)])


\* what a statistics value says of a repository (no bucket: no entry)
Bucket(stats, repo_url) ==
    IF repo_url \in DOMAIN stats.repositories THEN stats.repositories[repo_url]
    ELSE 0

\* C19: whatever operations came before, get_statistics reports the number of
\* index rows as total entries, for each repository the number of its rows
\* (the buckets adding up to the total), and the sum of the sizes the rows
\* record for their blobs, which is the sum of the blob files' lengths while
\* every blob is as put wrote it; the call changes no row and no blob.
C19_StatisticsExact ==
    [][ret'.op = "get_statistics" =>
         LET stats == Unwrap(ret'.stats)
             rows == { ck \in CacheKeyStrings : IsSome(index[ck]) } IN
         /\ stats.total_entries = Cardinality(rows)
         /\ DOMAIN stats.repositories \subseteq Repos
         /\ \A repo_url \in Repos :
               Bucket(stats, repo_url) = Cardinality(RowsOf(repo_url))
         /\ SumOver(stats.repositories, DOMAIN stats.repositories)
               = stats.total_entries
         /\ stats.total_size_bytes
               = SumOver([ck \in rows |-> Unwrap(index[ck]).file_size], rows)
         /\ (\A key \in CacheKeys :
                IsSome(index[to_cache_key(key)]) => IsSome(stored[key]))
               => stats.total_size_bytes
                    = SumOver([ck \in rows |->
                         Len(Unwrap(blobs[get_cache_file_path(ck)]))], rows)
         /\ index' = index
         /\ blobs' = blobs]_vars

\* statistics have just been read from an index with all three rows, of two
\* repositories and of blobs of different sizes
C19_Witness ==
    /\ ret.op = "get_statistics"
    /\ Unwrap(ret.stats).total_entries = 3
    /\ DOMAIN Unwrap(ret.stats).repositories = Repos
    /\ Unwrap(ret.stats).repositories["repoA"] = 2
    /\ \E ck1, ck2 \in CacheKeyStrings :
          /\ IsSome(index[ck1]) /\ IsSome(index[ck2])
          /\ Unwrap(index[ck1]).file_size # Unwrap(index[ck2]).file_size


\* C20: clear_all returns the number of rows the index had before the call;
\* afterwards the index has no row, no blob file remains, and a get of any key
\* returns none.
C20_ClearAllEmpties ==
    [][ret'.op = "clear_all" =>
         LET post == [index |-> index', blobs |-> blobs'] IN
         /\ ret'.count = Cardinality({ ck \in CacheKeyStrings : IsSome(index[ck]) })
         /\ \A ck \in CacheKeyStrings : index'[ck] = None
         /\ \A p \in CacheFilePaths : blobs'[p] = None
         /\ \A key \in CacheKeys : Answer(post, key, clock') = <<None, "miss">>]_vars

\* clear_all has just emptied a cache of three rows
C20_Witness ==
    /\ ret.op = "clear_all"
    /\ ret.count = Cardinality(CacheKeys)
    /\ \A ck \in CacheKeyStrings : index[ck] = None


-----------------------------------------------------------------------------
(* Claims about sample_commits (SpecSample) *)

\* the 1-based positions of the commits whose 0-based index is 0, n-1 or a
\* multiple of s
StridePositions(n, s) ==
    { p \in 1..n : (p - 1) = 0 \/ (p - 1) = n - 1 \/ (p - 1) % s = 0 }

\* the k-th smallest element of a set of numbers
KthOf(P, k) == CHOOSE p \in P : Cardinality({ q \in P : q <= p }) = k

\* C9: with no maximum and a stride s >= 1, sample_commits returns, in the
\* original order, exactly the commits whose 0-based index is 0, n-1 or a
\* multiple of s.
C9_StrideSampling ==
    (/\ IsSome(sample_out)
     /\ sample_in.max_commits = None
     /\ sample_in.commit_sampling >= 1) =>
        LET seq == sample_in.merge_sequence
            P   == StridePositions(Len(seq), sample_in.commit_sampling)
            out == Unwrap(sample_out) IN
        /\ ~out.panic
        /\ Len(out.commits) = Cardinality(P)
        /\ \A k \in 1..Len(out.commits) : out.commits[k] = seq[KthOf(P, k)]

\* C9 witness: the case of the unit test and larger: a stride of 2 or more on
\* a sequence where some commit is left out and the last index is no
\* multiple of the stride.
C9_Witness ==
    /\ IsSome(sample_out)
    /\ sample_in.max_commits = None
    /\ sample_in.commit_sampling >= 2
    /\ (Len(sample_in.merge_sequence) - 1) % sample_in.commit_sampling # 0
    /\ Len(Unwrap(sample_out).commits) < Len(sample_in.merge_sequence)
    /\ Len(Unwrap(sample_out).commits) >= 3

\* C10: for a non-empty sequence, a stride >= 1 and a maximum >= 1, the list
\* sample_commits returns contains the first and the last commit of the
\* sequence, also when it was cut down to the maximum.
C10_FirstAndLastKept ==
    (/\ IsSome(sample_out)
     /\ Len(sample_in.merge_sequence) >= 1
     /\ sample_in.commit_sampling >= 1
     /\ IsSome(sample_in.max_commits)
     /\ Unwrap(sample_in.max_commits) >= 1) =>
        LET seq == sample_in.merge_sequence
            out == Unwrap(sample_out) IN
        /\ ~out.panic
        /\ HasHash(out.commits, seq[1].hash)
        /\ HasHash(out.commits, seq[Len(seq)].hash)

\* C10 witness: the stride sample was longer than the maximum, so the list
\* was cut down, and the even-stride pick alone would have lost the last
\* commit.
C10_Witness ==
    /\ IsSome(sample_out)
    /\ sample_in.commit_sampling >= 1
    /\ IsSome(sample_in.max_commits)
    /\ Unwrap(sample_in.max_commits) >= 2
    /\ LET sampled == StrideSample(sample_in.merge_sequence,
                                   sample_in.commit_sampling)
           m == Unwrap(sample_in.max_commits) IN
       /\ Len(sampled) > m
       /\ ~HasHash(LimitedFrom(sampled, m, Len(sampled) \div m, 0),
                   sampled[Len(sampled)].hash)
       /\ HasHash(Unwrap(sample_out).commits, sampled[Len(sampled)].hash)


\* C11: when a maximum is configured, the list sample_commits returns never
\* has more entries than that maximum.
C11_AtMostMaxCommits ==
    (/\ IsSome(sample_out)
     /\ ~Unwrap(sample_out).panic
     /\ IsSome(sample_in.max_commits)) =>
        Len(Unwrap(sample_out).commits) <= Unwrap(sample_in.max_commits)


-----------------------------------------------------------------------------
(* Claims about cache key derivation (SpecKey) *)

\* the HashMap an iteration order stands for
AsMap(analyzer_config) == { analyzer_config[i] : i \in 1..Len(analyzer_config) }

\* equal (repository, commit, subfolder, analyzer, config) inputs, the
\* analyzer-specific settings compared as unordered maps
SameKeyInput(t, u) ==
    /\ t.repo_url = u.repo_url
    /\ t.commit_hash = u.commit_hash
    /\ t.subfolder = u.subfolder
    /\ t.analyzer_name = u.analyzer_name
    /\ t.analysis_config.ignore_patterns = u.analysis_config.ignore_patterns
    /\ t.analysis_config.file_extensions = u.analysis_config.file_extensions
    /\ t.analysis_config.max_depth = u.analysis_config.max_depth
    /\ t.analysis_config.follow_symlinks = u.analysis_config.follow_symlinks
    /\ AsMap(t.analysis_config.analyzer_config) = AsMap(u.analysis_config.analyzer_config)

\* C12: two derivations from equal inputs give the same key, whatever the
\* order in which the analyzer-specific settings are iterated.
C12_EqualInputsEqualKey ==
    (IsSome(key_out) /\ SameKeyInput(key_in[1], key_in[2])) =>
        Unwrap(key_out)[1] = Unwrap(key_out)[2]

\* the same two settings, iterated in opposite orders
C12_Witness ==
    /\ IsSome(key_out)
    /\ SameKeyInput(key_in[1], key_in[2])
    /\ Len(key_in[1].analysis_config.analyzer_config) = 2
    /\ key_in[1].analysis_config.analyzer_config
          # key_in[2].analysis_config.analyzer_config

-----------------------------------------------------------------------------
(* Claims about analyze_repository (Spec) *)

Finished == pc = "done"

LastEvent == events[Len(events)]

\* two fractions are the same number
SamePct(p, q) == p.num * q.den = q.num * p.den

AttemptsWith(outcomes) ==
    { i \in 1..Len(attempts) : attempts[i].outcome \in outcomes }

InfrastructureErrorOccurred == AttemptsWith({"checkout_failed"}) # {}

\* C3: whatever the outcome of a run that returned (success or an error), the
\* last progress event published, which is what the progress slot holds, is
\* terminal: Completed when the run returned success, Failed when it returned
\* an error.
C3_LastEventTerminal ==
    (Finished /\ run_result \in {Some("ok"), Some("err")}) =>
        /\ IsSome(ProgressSlot)
        /\ run_result = Some("ok") => Unwrap(ProgressSlot).phase = "Completed"
        /\ run_result = Some("err") => Unwrap(ProgressSlot).phase = "Failed"

\* C4: with no subfolder filter, the sequence built for a first-parent chain
\* of n commits (n below the walk cap) holds exactly those n commits, oldest
\* first.
C4_WholeChainOldestFirst ==
    (pc \notin {"idle", "clone"} /\ ~IsSome(Cfg.subfolder)
        /\ Len(history) < WalkCap) =>
        merge_sequence = FullChain(history)

\* the run went through the whole loop and no commit failed for a reason
\* other than missing project files
OnlyMissingProjectFailures ==
    /\ Finished
    /\ run_result \in {Some("ok"), Some("err")}
    /\ Len(attempts) = Len(commits_to_analyze)
    /\ AttemptsWith({"checkout_failed", "analysis_failed"}) = {}

\* C5: when the project can be analysed at the tip of the history but not at
\* its root commit, the run skips early commits and analyses later ones:
\* 0 < snapshots < sampled commits, the run ends Completed, and the final
\* message carries the success rate and the number of skipped commits.
C5_PartialSuccessRun ==
    (/\ OnlyMissingProjectFailures
     /\ Len(events) >= 3
     /\ Len(history) >= 2
     /\ PreAnalysis(Cfg, history[Len(history)]) = "ready"
     /\ PreAnalysis(Cfg, history[1]) # "ready") =>
        /\ 0 < Len(snapshots)
        /\ Len(snapshots) < Len(commits_to_analyze)
        /\ run_result = Some("ok")
        /\ LastEvent.phase = "Completed"
        /\ LastEvent.message =
              Message("commits analyzed successfully, success rate, commits skipped",
                      Len(snapshots), Len(commits_to_analyze),
                      success_rate(Len(snapshots), Len(commits_to_analyze)),
                      Len(commits_to_analyze) - Len(snapshots))

-----------------------------------------------------------------------------
(* Claims about the commit loop (SpecLoop) *)

MissingProject == {"cannot_analyze", "subfolder_missing"}

HasSnapshot(hash) ==
    \E j \in 1..Len(snapshots) : snapshots[j].commit_info.hash = hash

\* C6: a sampled commit that fails because the project marker file or the
\* subfolder is absent at it is skipped: it gets no snapshot, the run is not
\* ended by it, the next sampled commit is the next one attempted, and a run
\* that no checkout failure aborts attempts every sampled commit, in order.
C6_SkippedAndContinued ==
    \A i \in AttemptsWith(MissingProject) :
        /\ attempts[i].hash = commits_to_analyze[i].hash
        /\ ~HasSnapshot(attempts[i].hash)
        /\ pc = "loop" => loop_index = Len(attempts)
        /\ Finished =>
              /\ i = Len(attempts) =>
                    /\ i = Len(commits_to_analyze)
                    /\ LastEvent.percentage = Pct(100, 1)
              /\ ~InfrastructureErrorOccurred =>
                    /\ Len(attempts) = Len(commits_to_analyze)
                    /\ \A j \in (i + 1)..Len(commits_to_analyze) :
                          attempts[j].hash = commits_to_analyze[j].hash

\* a commit was skipped, later commits were attempted and one gave a snapshot
C6_Witness ==
    /\ Finished
    /\ \E i \in AttemptsWith(MissingProject) :
          /\ i < Len(attempts)
          /\ \E j \in (i + 1)..Len(attempts) : attempts[j].outcome = "analyzed"

\* C7: a checkout failure at a sampled commit ends the run in the same step:
\* it is the last commit attempted, the last event is the Failed event of
\* that commit, the run has returned an error, the commit has no snapshot.
C7_CheckoutFailureAborts ==
    \A i \in AttemptsWith({"checkout_failed"}) :
        /\ i = Len(attempts)
        /\ attempts[i].hash = commits_to_analyze[i].hash
        /\ Finished
        /\ run_result = Some("err")
        /\ loop_index = i - 1
        /\ LastEvent.phase = "Failed"
        /\ LastEvent.current_commit = i
        /\ LastEvent.current_commit_hash = attempts[i].hash
        /\ LastEvent.total_commits = Len(commits_to_analyze)
        /\ ~HasSnapshot(attempts[i].hash)
        /\ current_commit # Some(attempts[i].hash)

\* the checkout failed at a commit that is neither the first nor the last
C7_Witness ==
    \E i \in AttemptsWith({"checkout_failed"}) :
        1 < i /\ i < Len(commits_to_analyze)

\* C8 as stated: a run that reached the loop returns success iff no
\* infrastructure error occurred and some commit produced a snapshot; with
\* zero snapshots it ends with a Failed event at 100% and an error.
C8_AsStated ==
    (Finished /\ run_result # Some("panic")) =>
        /\ run_result = Some("ok") <=>
              (~InfrastructureErrorOccurred /\ Len(snapshots) >= 1)
        /\ Len(snapshots) = 0 =>
              /\ LastEvent.phase = "Failed"
              /\ SamePct(LastEvent.percentage, Pct(100, 1))
              /\ run_result = Some("err")

\* C8, amended: a run that reached the loop returns success iff no
\* infrastructure error occurred and some commit produced a snapshot; when
\* the loop ran to its end without an infrastructure error and zero commits
\* produced a snapshot (an empty sampled list included), the run ends with a
\* Failed event at 100% and an error.
C8_SuccessIffSnapshots ==
    (Finished /\ run_result # Some("panic")) =>
        /\ run_result = Some("ok") <=>
              (~InfrastructureErrorOccurred /\ Len(snapshots) >= 1)
        /\ (Len(snapshots) = 0 /\ ~InfrastructureErrorOccurred) =>
              /\ LastEvent.phase = "Failed"
              /\ SamePct(LastEvent.percentage, Pct(100, 1))
              /\ LastEvent.current_commit = Len(commits_to_analyze)
              /\ run_result = Some("err")

\* every sampled commit was attempted and none produced a snapshot
C8_Witness ==
    /\ Finished
    /\ ~InfrastructureErrorOccurred
    /\ Len(attempts) >= 2
    /\ Len(attempts) = Len(commits_to_analyze)
    /\ snapshots = <<>>


-----------------------------------------------------------------------------
(* Claims about the progress events of a run *)

\* the place of a phase in the order of a run; Completed and Failed both end it
PhaseRank(phase) ==
    CASE phase = "Cloning" -> 1
      [] phase = "BuildingCommitSequence" -> 2
      [] phase = "AnalyzingCommits" -> 3
      [] phase \in {"Completed", "Failed"} -> 4

\* C21: the phases of the events published so far follow the order Cloning,
\* BuildingCommitSequence, AnalyzingCommits (repeated), Completed or Failed:
\* the first event is Cloning, every event is of the phase of the event
\* before it (AnalyzingCommits only) or of the next phase, with Completed or
\* Failed right after AnalyzingCommits only, and nothing follows a Completed
\* or Failed event.
C21_PhaseOrder ==
    /\ events # <<>> => events[1].phase = "Cloning"
    /\ \A i \in 1..(Len(events) - 1) :
          LET this == PhaseRank(events[i].phase)
              next == PhaseRank(events[i + 1].phase) IN
          /\ this # 4
          /\ \/ next = this + 1
             \/ this = 3 /\ next = 3

\* a run has returned after the events Cloning, BuildingCommitSequence,
\* AnalyzingCommits (twice) and Completed
C21_Witness ==
    /\ Finished
    /\ Len(events) = 5
    /\ [i \in 1..5 |-> events[i].phase] =
          <<"Cloning", "BuildingCommitSequence", "AnalyzingCommits",
            "AnalyzingCommits", "Completed">>

\* p <= q for two fractions of positive denominators
PctLeq(p, q) == p.num * q.den <= q.num * p.den

\* C22: in publication order the percentage of the events of a run never
\* decreases, and every percentage lies within 0 and 100.
C22_PercentageMonotone ==
    /\ \A i \in 1..Len(events) :
          /\ PctLeq(Pct(0, 1), events[i].percentage)
          /\ PctLeq(events[i].percentage, Pct(100, 1))
    /\ \A i \in 1..(Len(events) - 1) :
          PctLeq(events[i].percentage, events[i + 1].percentage)

\* a run over three or more commits has returned, its percentages rising
\* from commit to commit
C22_Witness ==
    /\ Finished
    /\ Len(commits_to_analyze) >= 3
    /\ Len(attempts) = Len(commits_to_analyze)
    /\ \A i \in 4..(Len(events) - 1) :
          ~SamePct(events[i].percentage, events[i + 1].percentage)


-----------------------------------------------------------------------------
(* Claims about the order of analysis and the use of the cache in a run *)

Succeeded == AttemptsWith({"analyzed", "cache_hit"})

\* C23: the sampled commits are attempted one after the other in the order of
\* the sampled list, which is oldest to newest; each attempt whose checkout
\* succeeded leaves the working tree at its commit; the snapshot list holds
\* the sampled commits whose attempt succeeded, in the order of the sampled
\* list, no hash twice.
C23_ChronologicalOrder ==
    /\ Len(attempts) <= Len(commits_to_analyze)
    /\ \A i \in 1..Len(attempts) : attempts[i].hash = commits_to_analyze[i].hash
    /\ \A i, j \in 1..Len(commits_to_analyze) :
          i < j => PositionOf(commits_to_analyze[i].hash)
                      < PositionOf(commits_to_analyze[j].hash)
    /\ (attempts # <<>> /\ attempts[Len(attempts)].outcome # "checkout_failed") =>
          /\ current_commit = Some(attempts[Len(attempts)].hash)
          /\ head = PositionOf(attempts[Len(attempts)].hash)
    /\ Len(snapshots) = Cardinality(Succeeded)
    /\ \A j \in 1..Len(snapshots) :
          snapshots[j].commit_info = commits_to_analyze[KthOf(Succeeded, j)]
    /\ \A j, k \in 1..Len(snapshots) :
          j < k => snapshots[j].commit_info.hash # snapshots[k].commit_info.hash

\* a run over three commits has returned with snapshots of the first and the
\* last, the one between them skipped
C23_Witness ==
    /\ Finished
    /\ Len(attempts) = 3
    /\ Len(snapshots) = 2
    /\ attempts[2].outcome \in MissingProject
    /\ snapshots[1].commit_info.hash < snapshots[2].commit_info.hash


\* an analyze_commit call has just returned
AttemptMade == Len(attempts') = Len(attempts) + 1

\* the analyzer's analyze operation was invoked in an attempt
AnalyzerInvoked(attempt) == attempt.outcome \in {"analyzed", "analysis_failed"}

\* the cache lookup of an attempt was answered: the engine has its cache and
\* get returned Ok
LookupAnswered(attempt) == attempt.lookup \in {"hit", "miss", "corrupt", "missing"}

\* C24: in every analyze_commit call that reaches the cache lookup with the
\* cache available and get returning without error: when the key has a valid
\* entry the analyzer is not invoked and the snapshot pushed carries the
\* cached result; otherwise the analyzer is invoked (once: the call ends
\* with its result or its failure) and, when it succeeds and the write
\* returns without error, the key then has a valid entry holding the
\* snapshot's result.  In the run after a run on the same commits and
\* configuration, the analyzer is invoked for no commit the first run left
\* cached whose lookup is answered.
C24_CacheUsedInRun ==
    [][AttemptMade =>
         LET attempt == attempts'[Len(attempts')]
             key == CommitCacheKey(Cfg, attempt.hash)
             before == CacheGet(CacheState, key, clock)
             after == CacheGet([index |-> index', blobs |-> blobs'], key, clock') IN
         /\ (LookupAnswered(attempt) /\ before.outcome = "hit") =>
               /\ ~AnalyzerInvoked(attempt)
               /\ attempt.outcome = "cache_hit"
               /\ snapshots' = Append(snapshots,
                     CommitSnapshot(CommitInfo(attempt.hash), Unwrap(before.res),
                                    AnalysisPath(Cfg)))
         /\ (LookupAnswered(attempt) /\ before.outcome # "hit") =>
               /\ AnalyzerInvoked(attempt)
               /\ (attempt.outcome = "analyzed" /\ attempt.put = "ok") =>
                     /\ Len(snapshots') = Len(snapshots) + 1
                     /\ after.outcome = "hit"
                     /\ after.res =
                          Some(snapshots'[Len(snapshots')].analysis_result)
         /\ (/\ IsSome(cached_before)
             /\ attempt.hash \in Unwrap(cached_before)
             /\ LookupAnswered(attempt)) => ~AnalyzerInvoked(attempt)]_vars

\* the second run over two commits has returned: the first run had left both
\* cached, and the second run took both from the cache
C24_Witness ==
    /\ Finished
    /\ IsSome(cached_before)
    /\ Cardinality(Unwrap(cached_before)) = 2
    /\ Len(attempts) = 2
    /\ \A i \in 1..2 :
          /\ attempts[i].hash \in Unwrap(cached_before)
          /\ attempts[i].outcome = "cache_hit"


\* the cache failed in an attempt: the engine has no cache, get returned Err
\* or put returned Err
CacheFailedIn(attempt) ==
    \/ attempt.lookup \in {"err", "no_cache"}
    \/ attempt.put \in {"err", "no_cache"}

\* C25: an analyze_commit call in which the cache fails (no cache in the
\* engine, get returns an error, put returns an error) is not failed by it:
\* the analyzer is invoked, and when it succeeds its result for the commit is
\* appended as a snapshot; the run is not ended by the call and goes on to
\* the next commit.
C25_CacheFailuresNotFatal ==
    [][AttemptMade =>
         LET attempt == attempts'[Len(attempts')]
             tree == history[PositionOf(attempt.hash)] IN
         CacheFailedIn(attempt) =>
            /\ AnalyzerInvoked(attempt)
            /\ attempt.put = "err" => attempt.outcome = "analyzed"
            /\ attempt.outcome = "analyzed" =>
                  snapshots' = Append(snapshots,
                     CommitSnapshot(CommitInfo(attempt.hash),
                                    analyze_project(tree, AnalysisPath(Cfg)),
                                    AnalysisPath(Cfg)))
            /\ pc' = "loop"
            /\ run_result' = None
            /\ loop_index' = loop_index + 1]_vars

\* a run has completed with a snapshot of each of its two commits although
\* get failed for the first and put for both
C25_Witness ==
    /\ Finished
    /\ run_result = Some("ok")
    /\ Len(attempts) = 2
    /\ Len(snapshots) = 2
    /\ attempts[1].lookup = "err"
    /\ attempts[1].put = "err"
    /\ attempts[2].put = "err"


\* the analyzer's result for the commit of an attempt
FreshResult(attempt) ==
    analyze_project(history[PositionOf(attempt.hash)], AnalysisPath(Cfg))

\* C26: when the lookup of a sampled commit finds a corrupt entry (the blob
\* does not deserialize), the entry is evicted and the lookup counts as a
\* miss: the analyzer is invoked; when it succeeds and the result is stored,
\* the snapshot carries the recomputed result and get for the key returns
\* it, right after the call and when the run has returned.
C26_CorruptEntryRecomputed ==
    [][/\ AttemptMade =>
            LET attempt == attempts'[Len(attempts')]
                key == CommitCacheKey(Cfg, attempt.hash)
                ck == to_cache_key(key)
                after == CacheGet([index |-> index', blobs |-> blobs'], key, clock') IN
            attempt.lookup = "corrupt" =>
               /\ AnalyzerInvoked(attempt)
               /\ attempt.outcome = "analysis_failed" =>
                     /\ index'[ck] = None
                     /\ blobs'[get_cache_file_path(ck)] = None
               /\ attempt.outcome = "analyzed" =>
                     snapshots'[Len(snapshots')].analysis_result = FreshResult(attempt)
               /\ (attempt.outcome = "analyzed" /\ attempt.put = "ok") =>
                     after.res = Some(FreshResult(attempt))
       /\ pc' = "done" =>
            \A i \in 1..Len(attempts') :
               (/\ attempts'[i].lookup = "corrupt"
                /\ attempts'[i].outcome = "analyzed"
                /\ attempts'[i].put = "ok") =>
                  CacheGet([index |-> index', blobs |-> blobs'],
                           CommitCacheKey(Cfg, attempts'[i].hash), clock').res
                     = Some(FreshResult(attempts'[i]))]_vars

\* a run has returned after it found the entries of both its commits corrupt
\* and computed and stored both results again
C26_Witness ==
    /\ Finished
    /\ run_result = Some("ok")
    /\ Len(attempts) = 2
    /\ \A i \in 1..2 :
          /\ attempts[i].lookup = "corrupt"
          /\ attempts[i].outcome = "analyzed"
          /\ attempts[i].put = "ok"
          /\ CacheGet(CacheState, CommitCacheKey(Cfg, attempts[i].hash), clock).res
                = Some(snapshots[i].analysis_result)


-----------------------------------------------------------------------------
(* Claims about the navigator (SpecNav) *)

\* the path lies below the directory: the directory's name, a separator, more
NestedUnder(path, dir) ==
    \E k \in 2..(Len(path) - 1) :
        /\ path[k] = "/"
        /\ SubSeq(path, 1, k - 1) = dir

\* the commit at a position of the chain is a root commit whose tree holds
\* the subfolder as a directory, or changes against its first parent a path
\* equal to the subfolder or below it
Qualifies(position, subfolder) ==
    IF position = 1
    THEN \E f \in history[1] : NestedUnder(f, subfolder)
    ELSE \E f \in DiffPaths(history[position - 1], history[position]) :
            f = subfolder \/ NestedUnder(f, subfolder)

BuiltWith(subfolder) ==
    /\ nav_ret.op = "build"
    /\ nav_ret.outcome = "ok"
    /\ nav_ret.subfolder = subfolder

\* C27: after a build with a subfolder filter every commit of the sequence is
\* a root commit whose tree contains the subfolder as a directory or a commit
\* whose diff against its first parent changes a path equal to or nested
\* under the subfolder; a change to a sibling directory whose name only
\* starts with the subfolder's name does not qualify a commit.
C27_FilteredCommitsTouchSubfolder ==
    \A subfolder \in { Subfolder, Sibling } :
        BuiltWith(Some(subfolder)) =>
            \A i \in 1..Len(merge_sequence) :
                Qualifies(PositionOf(merge_sequence[i].hash), subfolder)

\* C27 witness: a build filtered by the subfolder has passed over the tip,
\* which changes only a path of the sibling directory, and has taken an older
\* commit that touches the subfolder.
C27_Witness ==
    /\ BuiltWith(Some(Subfolder))
    /\ Len(history) >= 2
    /\ DiffPaths(history[Len(history) - 1], history[Len(history)])
          = { Sibling \o Slash \o <<"x">> }
    /\ Len(merge_sequence) = 1
    /\ merge_sequence[1].hash # HashOf(Len(history))
    /\ Qualifies(PositionOf(merge_sequence[1].hash), Subfolder)

NoDuplicateHashes(commits) ==
    \A i, j \in 1..Len(commits) : commits[i].hash = commits[j].hash => i = j

\* the commit at a position of the chain is one a build with that filter may
\* take
Selected(position, subfolder) ==
    IsSome(subfolder) => Qualifies(position, Unwrap(subfolder))

\* C28: after a successful build the stored sequence has no duplicate hashes
\* and holds only commits of the chain that the call's filter selects; a
\* commit of the sequence stored before the call is in it only if the new
\* filter selects it.
C28_BuildReplacesSequence ==
    (nav_ret.op = "build" /\ nav_ret.outcome = "ok") =>
        /\ NoDuplicateHashes(merge_sequence)
        /\ \A i \in 1..Len(merge_sequence) :
              /\ Resolvable(merge_sequence[i].hash)
              /\ Selected(PositionOf(merge_sequence[i].hash), nav_ret.subfolder)
        /\ \A j \in 1..Len(nav_ret.before.merge_sequence) :
              LET old == nav_ret.before.merge_sequence[j] IN
              HasHash(merge_sequence, old.hash) =>
                  Selected(PositionOf(old.hash), nav_ret.subfolder)

\* C28 witness: the sequence held the tip, which does not touch the
\* subfolder; a build filtered by the subfolder has replaced it by an older
\* commit.
C28_Witness ==
    /\ BuiltWith(Some(Subfolder))
    /\ Len(nav_ret.before.merge_sequence) = 1
    /\ nav_ret.before.merge_sequence[1].hash = HashOf(Len(history))
    /\ ~Qualifies(Len(history), Subfolder)
    /\ Len(merge_sequence) = 1
    /\ ~HasHash(merge_sequence, HashOf(Len(history)))

\* C29: after any sequence of checkout calls the tracked current commit is
\* the commit HEAD is detached at: a successful checkout sets both to the
\* requested commit, a failed one returns an error and changes neither.
C29_TrackedCommitIsHead ==
    nav_ret.op = "checkout" =>
        /\ current_commit = detached_at
        /\ nav_ret.outcome = "ok" =>
              /\ current_commit = Some(nav_ret.hash)
              /\ detached_at = Some(nav_ret.hash)
        /\ nav_ret.outcome = "err" =>
              /\ current_commit = nav_ret.before.current_commit
              /\ detached_at = nav_ret.before.detached_at

-----------------------------------------------------------------------------
(* Claims about the analyzer registry (SpecRegistry) *)

Registered == { n \in RegistryNames : contains_key(registry, n) }

\* C30: the default analyzer is the one registered first unless a later
\* set_default_analyzer with a registered name succeeded, and then the name
\* of the last such call; set_default_analyzer with an unknown name fails and
\* leaves the default unchanged; get_analyzer of an unknown name finds
\* nothing; get_default_analyzer finds nothing exactly when nothing is
\* registered; the listing of a non-empty registry marks exactly one analyzer
\* as default.
C30_RegistryDefault ==
    /\ registry.default_analyzer =
          IF IsSome(reg_ret.last_set) THEN reg_ret.last_set ELSE reg_ret.first
    /\ (reg_ret.op = "set_default_analyzer" /\ reg_ret.name \notin Registered) =>
          /\ reg_ret.outcome = "err"
          /\ registry.default_analyzer = reg_ret.default_before
    /\ (reg_ret.op = "set_default_analyzer" /\ reg_ret.name \in Registered) =>
          /\ reg_ret.outcome = "ok"
          /\ registry.default_analyzer = Some(reg_ret.name)
    /\ (reg_ret.op = "get_analyzer" /\ reg_ret.name \notin Registered) =>
          reg_ret.found = None
    /\ reg_ret.op = "get_default_analyzer" =>
          (reg_ret.found = None <=> Registered = {})
    /\ (reg_ret.op = "list_analyzers" /\ Registered # {}) =>
          /\ Cardinality({ info \in reg_ret.listing : info.is_default }) = 1
          /\ { info.name : info \in reg_ret.listing } = Registered

\* C30 witness: two analyzers are registered, the second was made default by
\* a set_default_analyzer after the first had become default by being
\* registered first, and the listing marks that second one alone.
C30_Witness ==
    /\ reg_ret.op = "list_analyzers"
    /\ Registered = RegistryNames
    /\ IsSome(reg_ret.first)
    /\ IsSome(reg_ret.last_set)
    /\ reg_ret.last_set # reg_ret.first
    /\ { info.name : info \in { i \in reg_ret.listing : i.is_default } }
          = { Unwrap(reg_ret.last_set) }

-----------------------------------------------------------------------------
(* Claims about the run: validation, sampling *)

\* the clone has returned and the configured subfolder is not in the tree it
\* left checked out
SubfolderMissingAfterClone ==
    /\ pc \notin {"idle", "clone"}
    /\ IsSome(Cfg.subfolder)
    /\ ~PathExists(history[Len(history)], AnalysisPath(Cfg))

\* C31: when a subfolder is configured and is missing from the tree checked
\* out after the clone, the run fails before a sampled commit is checked out,
\* before the analyzer is invoked and before a cache entry is read or written:
\* the only step left is the one that returns the error.
C31_ValidationFailsFast ==
    [][SubfolderMissingAfterClone =>
          /\ pc = "validate"
          /\ pc' = "done"
          /\ run_result' = Some("err")
          /\ attempts' = <<>>
          /\ snapshots' = <<>>
          /\ commits_to_analyze' = <<>>
          /\ UNCHANGED <<index, blobs, stored, head, current_commit, detached_at>>]_vars

\* C31 witness: a run on a repository whose tip lacks the configured
\* subfolder has returned its error after the two events of the clone.
C31_Witness ==
    /\ SubfolderMissingAfterClone
    /\ pc = "done"
    /\ run_result = Some("err")
    /\ Len(events) = 2
    /\ attempts = <<>>

\* C32: when the mirror is reopened with HEAD left detached by an earlier
\* run and the remote default branch has advanced since, the sequence built
\* after the fetch and the hard reset ends at the remote branch's new tip.
C32_ReopenedSequenceEndsAtNewTip ==
    (/\ nav_ret.op = "open"
     /\ nav_ret.outcome = "ok"
     /\ IsSome(nav_ret.before.detached_at)) =>
        /\ merge_sequence # <<>>
        /\ merge_sequence[Len(merge_sequence)].hash = HashOf(Len(history))

\* C33: the build always ends: the first-parent walk stops at a root commit,
\* at an already visited commit or at the cap on inspected commits, and the
\* cap, a diff that errors or a diff stopped early by its callback never fail
\* the build, which returns success with the commits selected so far.
C33_WalkStopsAtRootVisitedOrCap ==
    walk.status = "stopped" =>
        /\ walk.reason \in {"root", "visited", "cap"}
        /\ nav_ret.op = "build"
        /\ nav_ret.outcome = "ok"
        /\ merge_sequence = Reverse(walk.sequence)

\* the part of C33 that does not depend on where the walk stops: a stopped
\* walk has returned success with the commits pushed so far
WalkNeverFails ==
    walk.status = "stopped" =>
        /\ nav_ret.op = "build"
        /\ nav_ret.outcome = "ok"
        /\ merge_sequence = Reverse(walk.sequence)
        /\ walk.total_commits <= WalkCap + 1

\* a walk has stopped at the cap after a diff went unanswered
WalkStoppedAtCap == walk.status = "stopped" /\ walk.reason = "cap"

-----------------------------------------------------------------------------
(* Claims about the command surface (SpecCommands) *)

\* C34: after start_analysis has returned, whether the run succeeded, failed
\* or its worker task aborted, the engine it took out of the slot is back in
\* the slot.
C34_EngineBackAfterStart ==
    [][\A engine \in 1..MaxEngines :
          (\/ RunReturns(engine, "ok")
           \/ RunReturns(engine, "err")
           \/ RunAborts(engine)) =>
              commands'.slot = Some(engine)]_vars

\* C35: no two runs in flight work on the clone directory of the same url.
C35_OneRunPerClone ==
    \A e1, e2 \in 1..MaxEngines :
        (/\ e1 # e2
         /\ commands.runs[e1] = "running"
         /\ commands.runs[e2] = "running") =>
            commands.urls[e1] # commands.urls[e2]

\* C36: between an initialize_analysis and the next initialize_analysis or
\* cleanup_analysis the slot holds no engine other than the one that
\* initialize_analysis installed.
C36_InstalledEngineStays ==
    (IsSome(commands.installed) /\ IsSome(commands.slot)) =>
        commands.slot = commands.installed

-----------------------------------------------------------------------------
(* Claims about the inputs the commands accept *)

\* C39: sample_commits returns a list without faulting for every stride and
\* every maximum initialize_analysis takes from its overrides (any unsigned
\* number), a stride of 0 and a maximum of 0 included.
C39_SamplingNeverFaults ==
    IsSome(sample_out) => ~Unwrap(sample_out).panic

\* C40: cleanup_old_entries computes its cutoff without underflow for every
\* maxAgeDays the command accepts; when the age window reaches back before
\* time zero the call removes nothing and returns 0.
C40_CutoffNeverUnderflows ==
    [][\A max_age_days \in MaxAgeDays :
         (CleanupOldEntries(max_age_days) /\ CutoffUnderflows(max_age_days, clock)) =>
            /\ ret'.outcome = "ok"
            /\ ret'.count = 0
            /\ UNCHANGED <<index, blobs>>]_vars

\* C38: in one cache instance, after any sequence of put, get,
\* remove_repository, cleanup_old_entries and clear_all whose file operations
\* succeed, a put stopped between its blob write and its index insert
\* included, every row of the index has its blob file on disk
C38_EveryRowHasBlob ==
    \A cache_key \in DOMAIN index :
        IsSome(index[cache_key]) => IsSome(blobs[get_cache_file_path(cache_key)])

\* an interrupted put left a blob without a row, next to a row with its blob
C38_Witness ==
    /\ ret.op = "put" /\ ret.outcome = "interrupted"
    /\ \E cache_key \in DOMAIN index :
          /\ ~IsSome(index[cache_key])
          /\ IsSome(blobs[get_cache_file_path(cache_key)])
    /\ \E cache_key \in DOMAIN index : IsSome(index[cache_key])

\* C37: two instances share one cache directory; after any interleaving of
\* the steps of a put(k, r) by one with the steps of a remove_repository or a
\* cleanup_old_entries by the other, a later get(k) returns r or nothing (no
\* error, no other result, no blob that fails to load), and after that get
\* the index has a row for k only if k's blob file exists
C37_SharedGetReturnsPutOrNone ==
    in_flight.got =>
        LET cache_key == to_cache_key(Unwrap(in_flight.put.key)) IN
        /\ ret.op = "get"
        /\ ret.key = in_flight.put.key
        /\ ret.res \in {None, in_flight.put.result}
        /\ ret.outcome \in {"hit", "miss", "missing"}
        /\ IsSome(index[cache_key]) => IsSome(blobs[get_cache_file_path(cache_key)])

\* the get found the row the put inserted after the other instance had
\* deleted the blob the put wrote, and removed that row
C37_Witness ==
    /\ in_flight.got
    /\ ret.op = "get" /\ ret.outcome = "missing" /\ ret.res = None
    /\ ~IsSome(index[to_cache_key(Unwrap(in_flight.put.key))])

=============================================================================
